---- MODULE Spec2Model ----
(***************************************************************************)
(* A model of the feed cache, the feed fetcher, the session store and the  *)
(* article-content flow of lloyds_list_mcp.                                *)
(*                                                                         *)
(*   rss_parser.py       RSSFeedManager   (cache, get_feed, get_all_feeds) *)
(*   session_manager.py  SessionManager, MemorySessionStore,               *)
(*                       RedisSessionStore                                 *)
(*   article_fetcher.py  ArticleFetcher   (fetch_article, _detect_paywall) *)
(*   server.py           get_article_content, summarize_articles           *)
(*                                                                         *)
(* Every handler is one action; what the environment decides (the clock,   *)
(* a network response, whether a file write goes through) is drawn with \E.*)
(* Python's None, exceptions, dicts and strings are records tagged by a    *)
(* "kind" field, so that values of different Python types stay comparable. *)
(***************************************************************************)
EXTENDS Integers, Sequences, FiniteSets, TLC

VARIABLES
    now,      \* time.time(), in whole ticks
    backend,  \* settings.session_store: "memory" or "redis"
    store,    \* the session backend: session id -> stored record
    cache,    \* the cache directory: feed url -> cache file
    batch,    \* the get_all_feeds call in flight, if any
    last,     \* the call that completed last, with its arguments and what it
              \* returned; none while a get_all_feeds call is in flight
    twin      \* the backend of a second SessionManager, of the other kind,
              \* that is given the same calls as the first (SpecTwin only)

vars == <<now, backend, store, cache, batch, last, twin>>

----------------------------------------------------------------------------
(* Bounds of the model.                                                    *)

\* The clock runs from 0 to MaxTime.
MaxTime == 3

\* settings.feed_cache_ttl (config.py:18, default 300 s), in ticks.
feed_cache_ttl == 2

\* settings.session_ttl (config.py:23, default 86400 s), in ticks.
session_ttl == 2

\* The limit argument of search_articles and get_latest_articles runs from 0
\* to MaxLimit.
MaxLimit == 2

----------------------------------------------------------------------------
(* Python values.                                                          *)

None == [kind |-> "None"]

Raise(exc, msg) == [kind |-> "raise", exc |-> exc, msg |-> msg]

IsRaise(v) == v.kind = "raise"

----------------------------------------------------------------------------
(* session_manager.py                                                      *)

\* secrets.token_urlsafe(32): the ids a run may draw.
SessionIds == {"tokA", "tokB"}

\* A token no create_session ever returned.
UnknownId == "tokX"

\* What authenticate hands to create_session: the user and the Playwright
\* storage state of that user's login.
Logins == { [user_id |-> "alice", state |-> "cookiesA"],
            [user_id |-> "bob",   state |-> "cookiesB"] }

\* The ttl argument of create_session: omitted, 0, or a positive number.
TtlArgs == { None, [kind |-> "int", v |-> 0], [kind |-> "int", v |-> 1] }

\* The key of self.cipher, and the key of a process that ran before a rotation.
CipherKey == "key1"
OldKey == "key0"

\* self.cipher.encrypt(json.dumps(state).encode()).decode(): a Fernet token,
\* a string that only the key it was made with opens.
Encrypt(key, state) == [kind |-> "fernet", key |-> key, plain |-> state]

\* A Playwright storage state as a Python dict (not a string).
Dict(state) == [kind |-> "dict", value |-> state]

\* A string that is no Fernet token.
Garbage == [kind |-> "garbage"]

\* The decryption of get_session without its json.loads: the decrypted text.
Decrypt_no_loads(key, blob) ==
    IF blob.kind = "fernet" /\ blob.key = key
    THEN [kind |-> "str", text |-> blob.plain]
    ELSE Raise("Exception", "decrypt")

\* session_data["playwright_session"].encode(); self.cipher.decrypt(...);
\* json.loads(decrypted).  A dict has no encode() (AttributeError), a string
\* that is no token of this key raises InvalidToken: both are "raise" here.
Decrypt(key, blob) ==
    IF blob.kind = "fernet" /\ blob.key = key
    THEN Dict(blob.plain)
    ELSE Raise("Exception", "decrypt")

NoRecord == [kind |-> "absent"]

\* A ttl of 0 taken at its word: only an omitted ttl gets the default.
EffectiveTtl_zero_is_zero(ttl) == IF ttl = None THEN session_ttl ELSE ttl.v

\* `ttl or settings.session_ttl`
EffectiveTtl(ttl) == IF ttl = None \/ ttl.v = 0 THEN session_ttl ELSE ttl.v

\* MemorySessionStore.set / RedisSessionStore.set (setex): both keep the data
\* together with the time it expires.
StoreSet(st, id, data, ttl) ==
    [st EXCEPT ![id] = [kind |-> "record", data |-> data,
                        expires_at |-> now + EffectiveTtl(ttl)]]

\* MemorySessionStore.get without the look at expires_at.
MemoryGet_no_expiry(st, id) ==
    IF st[id] = NoRecord THEN [ret |-> None, store |-> st]
    ELSE [ret |-> st[id].data, store |-> st]

\* MemorySessionStore.get: the stored dict itself (no copy), or None; an
\* expired record is deleted on the way.
MemoryGet(st, id) ==
    IF st[id] = NoRecord THEN [ret |-> None, store |-> st]
    ELSE IF now > st[id].expires_at
         THEN [ret |-> None, store |-> [st EXCEPT ![id] = NoRecord]]
         ELSE [ret |-> st[id].data, store |-> st]

\* RedisSessionStore.get: json.loads of the stored text, a fresh dict; redis
\* drops a key once its ttl seconds have passed.
RedisGet(st, id) ==
    IF st[id] = NoRecord THEN [ret |-> None, store |-> st]
    ELSE IF now >= st[id].expires_at
         THEN [ret |-> None, store |-> [st EXCEPT ![id] = NoRecord]]
         ELSE [ret |-> st[id].data, store |-> st]

\* self.store.get of a manager whose store is of kind b.
StoreGetOn(b, st, id) == IF b = "memory" THEN MemoryGet(st, id) ELSE RedisGet(st, id)

StoreGet(st, id) == StoreGetOn(backend, st, id)

\* A delete that empties the backend.
StoreDelete_all(st, id) == [i \in DOMAIN st |-> NoRecord]

\* MemorySessionStore.delete / RedisSessionStore.delete
StoreDelete(st, id) == [st EXCEPT ![id] = NoRecord]

\* get_session leaving a record it cannot decrypt where it is.
get_session_result_keeps_corrupt(st, id) ==
    LET got == StoreGet(st, id) IN
    IF got.ret = None THEN [ret |-> None, store |-> got.store, steps |-> <<"get">>]
    ELSE LET dec == Decrypt(CipherKey, got.ret.playwright_session) IN
         IF IsRaise(dec)
         THEN [ret |-> None, store |-> got.store, steps |-> <<"get", "decrypt">>]
         ELSE LET session_data == [got.ret EXCEPT !.playwright_session = dec] IN
              [ret   |-> session_data,
               store |-> IF backend = "memory"
                         THEN [got.store EXCEPT ![id].data = session_data]
                         ELSE got.store,
               steps |-> <<"get", "decrypt">>]

\* SessionManager.get_session.  With the memory backend session_data IS the
\* stored dict, so the assignment session_data["playwright_session"] = ...
\* writes the decrypted state into the store; with redis it is a copy.
\* steps: what it did ("get": store.get, "decrypt": the try block,
\* "delete": the store.delete of the except block).
get_session_on(b, st, id) ==
    LET got == StoreGetOn(b, st, id) IN
    IF got.ret = None THEN [ret |-> None, store |-> got.store, steps |-> <<"get">>]
    ELSE LET dec == Decrypt(CipherKey, got.ret.playwright_session) IN
         IF IsRaise(dec)
         THEN [ret |-> None, store |-> StoreDelete(got.store, id),
               steps |-> <<"get", "decrypt", "delete">>]
         ELSE LET session_data == [got.ret EXCEPT !.playwright_session = dec] IN
              [ret   |-> session_data,
               store |-> IF b = "memory"
                         THEN [got.store EXCEPT ![id].data = session_data]
                         ELSE got.store,
               steps |-> <<"get", "decrypt">>]

\* get_session of the manager of this run.
get_session_result(st, id) == get_session_on(backend, st, id)

\* The ids a caller may present: the ones create_session can return and one
\* it never returned.
Tokens == SessionIds \cup {UnknownId}

\* The store has a slot for every token a caller may present; a token that
\* was never issued stays absent.
EmptyStore == [id \in Tokens |-> NoRecord]

\* SessionManager.create_session
create_session(id, login, ttl) ==
    /\ id \in SessionIds
    /\ store[id] = NoRecord
    /\ store' = StoreSet(store, id,
                         [kind |-> "session", user_id |-> login.user_id,
                          created_at |-> now,
                          playwright_session |-> Encrypt(CipherKey, login.state)],
                         ttl)
    /\ last' = [op |-> "create_session", id |-> id, login |-> login, ttl |-> ttl,
                ret |-> id]
    /\ UNCHANGED <<now, backend, cache, batch, twin>>

\* SessionManager.get_session
get_session(id) ==
    LET r == get_session_result(store, id) IN
    /\ store' = r.store
    /\ last' = [op |-> "get_session", id |-> id, ret |-> r.ret, steps |-> r.steps]
    /\ UNCHANGED <<now, backend, cache, batch, twin>>

\* SessionManager.delete_session
delete_session(id) ==
    /\ store' = StoreDelete(store, id)
    /\ last' = [op |-> "delete_session", id |-> id, ret |-> None]
    /\ UNCHANGED <<now, backend, cache, batch, twin>>

\* The redis data changes under the process: a record written with a rotated
\* key, or damaged text.  The in-process map has no such outside writer.
CorruptRecord(id) ==
    /\ backend = "redis"
    /\ store[id] # NoRecord
    /\ store[id].data.playwright_session.kind = "fernet"
    /\ store[id].data.playwright_session.key = CipherKey
    /\ \E blob \in {Garbage, Encrypt(OldKey, store[id].data.playwright_session.plain)} :
          store' = [store EXCEPT ![id].data.playwright_session = blob]
    /\ UNCHANGED <<now, backend, cache, batch, last, twin>>

\* SessionManager.validate_session: self.store.exists(session_id).
\* MemorySessionStore.exists is `get(...) is not None`; RedisSessionStore.exists
\* asks redis, which no longer has a key whose ttl has passed.
validate_session(id) ==
    LET got == StoreGet(store, id) IN
    /\ store' = got.store
    /\ last' = [op |-> "validate_session", id |-> id,
                ret |-> [kind |-> "bool", v |-> (got.ret # None)]]
    /\ UNCHANGED <<now, backend, cache, batch, twin>>

\* A sweep that also drops the records that expire at this very moment.
cleanup_inclusive ==
    /\ backend = "memory"
    /\ store' = [id \in DOMAIN store |->
                    IF store[id] # NoRecord /\ now >= store[id].expires_at
                    THEN NoRecord ELSE store[id]]
    /\ last' = [op |-> "cleanup", ret |-> None,
                expired |-> {id \in DOMAIN store :
                                store[id] # NoRecord /\ now >= store[id].expires_at}]
    /\ UNCHANGED <<now, backend, cache, batch, twin>>

\* MemorySessionStore.cleanup: drop every record with now > expires_at.
\* expired: the ids of its `expired` list.
cleanup ==
    /\ backend = "memory"
    /\ store' = [id \in DOMAIN store |->
                    IF store[id] # NoRecord /\ now > store[id].expires_at
                    THEN NoRecord ELSE store[id]]
    /\ last' = [op |-> "cleanup", ret |-> None,
                expired |-> {id \in DOMAIN store :
                                store[id] # NoRecord /\ now > store[id].expires_at}]
    /\ UNCHANGED <<now, backend, cache, batch, twin>>

\* The other kind of backend.
Other(b) == IF b = "memory" THEN "redis" ELSE "memory"

\* What create_session stores for a login.
SessionData(login) ==
    [kind |-> "session", user_id |-> login.user_id, created_at |-> now,
     playwright_session |-> Encrypt(CipherKey, login.state)]

\* One create_session call on each of two managers, the first on `backend`
\* and the second on the other kind; both draw the same id.
twin_create_session(id, login, ttl) ==
    /\ id \in SessionIds
    /\ store[id] = NoRecord /\ twin[id] = NoRecord
    /\ store' = StoreSet(store, id, SessionData(login), ttl)
    /\ twin' = StoreSet(twin, id, SessionData(login), ttl)
    /\ last' = [op |-> "create_session", id |-> id, login |-> login,
                ret |-> id, twin_ret |-> id]
    /\ UNCHANGED <<now, backend, cache, batch>>

\* One get_session call on each of the two managers.
twin_get_session(id) ==
    LET r == get_session_on(backend, store, id)
        t == get_session_on(Other(backend), twin, id) IN
    /\ store' = r.store
    /\ twin' = t.store
    /\ last' = [op |-> "get_session", id |-> id, ret |-> r.ret, twin_ret |-> t.ret]
    /\ UNCHANGED <<now, backend, cache, batch>>

\* One validate_session call on each of the two managers.
twin_validate_session(id) ==
    LET r == StoreGetOn(backend, store, id)
        t == StoreGetOn(Other(backend), twin, id) IN
    /\ store' = r.store
    /\ twin' = t.store
    /\ last' = [op |-> "validate_session", id |-> id,
                ret |-> [kind |-> "bool", v |-> (r.ret # None)],
                twin_ret |-> [kind |-> "bool", v |-> (t.ret # None)]]
    /\ UNCHANGED <<now, backend, cache, batch>>

\* One delete_session call on each of the two managers.
twin_delete_session(id) ==
    /\ store' = StoreDelete(store, id)
    /\ twin' = StoreDelete(twin, id)
    /\ last' = [op |-> "delete_session", id |-> id, ret |-> None, twin_ret |-> None]
    /\ UNCHANGED <<now, backend, cache, batch>>

----------------------------------------------------------------------------
(* article_fetcher.py                                                      *)

\* ArticleFetcher.PAYWALL_INDICATORS, in list order.
PAYWALL_INDICATORS ==
    << "paywall", "subscriber-only", "restricted-content", "premium-content",
       "subscription-required", "sign in to continue", "subscribe to read",
       "subscription required", "become a subscriber", "log in to view" >>

\* `"class" in indicator or "-" in indicator`: the indicators the class loop
\* looks for ("paywall" has neither a "-" nor the word "class").
IsClassIndicator(indicator) ==
    indicator \in {"subscriber-only", "restricted-content", "premium-content",
                   "subscription-required"}

\* `" " in indicator`: the indicators the text loop looks for.
IsTextIndicator(indicator) ==
    indicator \in {"sign in to continue", "subscribe to read",
                   "subscription required", "become a subscriber", "log in to view"}

\* truncation_indicators, in list order.
truncation_indicators ==
    << "continue reading", "read more", "view full article",
       "full story available to subscribers" >>

\* The least index of seq whose element is in S, or 0.
FirstIn(seq, S) ==
    IF \E i \in DOMAIN seq : seq[i] \in S
    THEN CHOOSE i \in DOMAIN seq : seq[i] \in S /\ \A j \in 1..(i - 1) : seq[j] \notin S
    ELSE 0

Range(seq) == {seq[i] : i \in DOMAIN seq}

\* An optional str that is there.
Str(v) == [kind |-> "str", v |-> v]

\* A text of len characters.
Text(s, len) == [s |-> s, len |-> len]

\* What the extractors read off a page, after BeautifulSoup has parsed it:
\*   h1s        the <h1> elements in document order, each with its text, its
\*              class, and whether it is inside an <article> and inside an
\*              element of class article-header
\*   title_tag  the text of <title>, or None
\*   bodies     for each of body_selectors, the first element it selects (the
\*              joined text of its non-empty <p>s and all of its text), or None
\*   author_meta, author_el   the content of the author <meta>; the text of the
\*              first element an author selector selects
\*   date_meta, time_tag      the content of the date <meta>; <time datetime>
\*   keywords, tag_links      the pieces of the content of <meta name=keywords>
\*              between its commas; the texts of the tag links
\*   og_image, imgs           the og:image content; the <img>s of the first
\*              <article> or <main>, each with src and alt
\* author, date, tags and images are given as pairs of their two sources.
Parts(h1s, title_tag, bodies, author, date, tags, images) ==
    [h1s |-> h1s, title_tag |-> title_tag, bodies |-> bodies,
     author_meta |-> author[1], author_el |-> author[2],
     date_meta |-> date[1], time_tag |-> date[2],
     keywords |-> tags[1], tag_links |-> tags[2],
     og_image |-> images[1], imgs |-> images[2]]

H1(text, class, in_article, in_header) ==
    [text |-> text, class |-> class, in_article |-> in_article, in_header |-> in_header]

Element(paragraphs, text) == [kind |-> "element", paragraphs |-> paragraphs, text |-> text]

\* A page with nothing on it but an <article> of that many characters, all
\* of them in paragraphs (none when article < 0).
ArticleOnly(name, article) ==
    Parts(<<>>, None,
          <<None, None, None,
            IF article >= 0 THEN Element(Text(name, article), Text(name, article)) ELSE None,
            None>>,
          <<None, None>>, <<None, None>>, << <<>>, <<>> >>, <<None, <<>> >>)

\* What _detect_paywall reads off a page, after BeautifulSoup has parsed it:
\*   in_class  the strings that occur in the (lower-cased) class of some element
\*   in_text   the strings that occur in soup.get_text().lower()
\*   article   the length of the text of the first <article> (or element whose
\*             class contains "article"), or -1 when the page has none
\*   buttons   for each <button>/<a> whose text holds "sign in", "log in",
\*             "subscribe" or "become a member": its nearest main/article/div
\*             ancestor, "none", "header" (class contains "header") or "content"
\*   parts     what the extractors read off it (see Parts)
Html(name, in_class, in_text, article, buttons) ==
    [name |-> name, in_class |-> in_class, in_text |-> in_text,
     article |-> article, buttons |-> buttons,
     parts |-> ArticleOnly(name, article)]

HtmlOpen     == Html("open", {"article-body"}, {}, 900, <<>>)
HtmlFixture  == Html("fixture", {"paywall", "article-body"},
                     {"sign in to continue", "continue reading"}, 120, <<"content">>)
HtmlPaywallClass == Html("paywall-class", {"paywall"}, {}, 900, <<>>)
HtmlSubscriberOnly == Html("subscriber-only", {"subscriber-only"}, {}, 900, <<>>)
HtmlTruncated == Html("truncated", {}, {"read more"}, 300, <<>>)
HtmlReadMoreLong == Html("read-more-long", {}, {"read more"}, 800, <<"header">>)
HtmlCta      == Html("cta", {}, {}, -1, <<"header", "content">>)
HtmlFull     == Html("full", {"premium-content"}, {}, 2000, <<>>)

\* ArticleFetcher._detect_paywall: (is_paywalled, reason)
Verdict(is_paywalled, reason) == [is_paywalled |-> is_paywalled, reason |-> reason]

\* The classifier with a truncation rule that takes a body of exactly 500
\* characters for short as well.
detect_paywall_500_is_short(html) ==
    LET c == FirstIn(PAYWALL_INDICATORS,
                     {i \in html.in_class : IsClassIndicator(i)})
        t == FirstIn(PAYWALL_INDICATORS,
                     {i \in html.in_text : IsTextIndicator(i)})
        r == FirstIn(truncation_indicators, html.in_text)
    IN  IF c # 0
        THEN Verdict(TRUE, [rule |-> "Found paywall class", indicator |-> PAYWALL_INDICATORS[c]])
        ELSE IF t # 0
        THEN Verdict(TRUE, [rule |-> "Found paywall text", indicator |-> PAYWALL_INDICATORS[t]])
        ELSE IF r # 0 /\ html.article >= 0 /\ html.article <= 500
        THEN Verdict(TRUE, [rule |-> "Truncated content detected",
                            indicator |-> truncation_indicators[r]])
        ELSE IF \E b \in DOMAIN html.buttons : html.buttons[b] = "content"
        THEN Verdict(TRUE, [rule |-> "Sign in/Subscribe button found in content area"])
        ELSE Verdict(FALSE, None)

detect_paywall(html) ==
    LET c == FirstIn(PAYWALL_INDICATORS,
                     {i \in html.in_class : IsClassIndicator(i)})
        t == FirstIn(PAYWALL_INDICATORS,
                     {i \in html.in_text : IsTextIndicator(i)})
        \* every truncation indicator found in the text looks at the same
        \* article body, so the first one found decides
        r == FirstIn(truncation_indicators, html.in_text)
    IN  IF c # 0
        THEN Verdict(TRUE, [rule |-> "Found paywall class", indicator |-> PAYWALL_INDICATORS[c]])
        ELSE IF t # 0
        THEN Verdict(TRUE, [rule |-> "Found paywall text", indicator |-> PAYWALL_INDICATORS[t]])
        ELSE IF r # 0 /\ html.article >= 0 /\ html.article < 500
        THEN Verdict(TRUE, [rule |-> "Truncated content detected",
                            indicator |-> truncation_indicators[r]])
        ELSE IF \E b \in DOMAIN html.buttons : html.buttons[b] = "content"
        THEN Verdict(TRUE, [rule |-> "Sign in/Subscribe button found in content area"])
        ELSE Verdict(FALSE, None)

\* title_selectors of _extract_title, in list order, as tests on an <h1>.
title_selectors ==
    << "h1.article-title", "h1[class*='title']", "article h1", ".article-header h1", "h1" >>

\* class*='title' on the classes the pages use.
ClassContainsTitle(class) == class \in {"article-title", "page-title"}

Selects(selector, h) ==
    CASE selector = "h1.article-title" -> h.class = "article-title"
      [] selector = "h1[class*='title']" -> ClassContainsTitle(h.class)
      [] selector = "article h1" -> h.in_article
      [] selector = ".article-header h1" -> h.in_header
      [] OTHER -> TRUE

\* soup.select_one(selector): the first <h1> in document order it selects, 0
\* when there is none.
select_one(selector, h1s) ==
    IF \E i \in DOMAIN h1s : Selects(selector, h1s[i])
    THEN CHOOSE i \in DOMAIN h1s :
            /\ Selects(selector, h1s[i])
            /\ \A j \in 1..(i - 1) : ~Selects(selector, h1s[j])
    ELSE 0

\* ArticleFetcher._extract_title
extract_title(parts) ==
    LET hit == {k \in DOMAIN title_selectors : select_one(title_selectors[k], parts.h1s) # 0} IN
    IF hit # {}
    THEN LET k == CHOOSE k \in hit : \A m \in hit : k <= m IN
         parts.h1s[select_one(title_selectors[k], parts.h1s)].text
    ELSE IF parts.title_tag # None THEN parts.title_tag.v
    ELSE "Untitled Article"

\* body_selectors of _extract_body, in list order.
body_selectors ==
    << "article .article-body", ".article-content", "[class*='article-text']",
       "article", "main" >>

BodySentinel == Text("Article content could not be extracted", 39)

\* ArticleFetcher._extract_body from selector k on: the paragraphs of the
\* first selected element that has more than 100 characters of them, else all
\* of its text when that has more than 100, else the next selector.
RECURSIVE extract_body_from(_, _)
extract_body_from(parts, k) ==
    IF k > Len(body_selectors) THEN BodySentinel
    ELSE LET element == parts.bodies[k] IN
         IF element = None THEN extract_body_from(parts, k + 1)
         ELSE IF element.paragraphs.len > 100 THEN element.paragraphs
         ELSE IF element.text.len > 100 THEN element.text
         ELSE extract_body_from(parts, k + 1)

\* _extract_body without the length tests: the text of the first selected
\* element, however short.
extract_body_first_element(parts) ==
    IF \E k \in DOMAIN parts.bodies : parts.bodies[k] # None
    THEN parts.bodies[CHOOSE k \in DOMAIN parts.bodies :
                         /\ parts.bodies[k] # None
                         /\ \A j \in 1..(k - 1) : parts.bodies[j] = None].text
    ELSE BodySentinel

extract_body(parts) == extract_body_from(parts, 1)

\* ArticleFetcher._extract_author: the meta tag, else the first element an
\* author selector selects with a leading "By " taken off, else None.
extract_author(parts) ==
    IF parts.author_meta # None THEN parts.author_meta
    ELSE IF parts.author_el # None
    THEN Str(IF parts.author_el.by THEN parts.author_el.name
             ELSE parts.author_el.name)
    ELSE None

\* ArticleFetcher._extract_date
extract_date(parts) ==
    IF parts.date_meta # None THEN parts.date_meta
    ELSE IF parts.time_tag # None THEN parts.time_tag
    ELSE None

\* str.strip() on the texts the pages carry: a text written with blanks
\* around it loses them, a text of blanks only becomes empty.
str_strip(t) ==
    CASE t = " oil"  -> "oil"
      [] t = "lng "  -> "lng"
      [] t = " "     -> ""
      [] OTHER       -> t

\* [t.strip() for t in content.split(",") if t.strip()], on the pieces of
\* the split.
RECURSIVE keyword_tags(_)
keyword_tags(pieces) ==
    IF pieces = <<>> THEN <<>>
    ELSE IF str_strip(Head(pieces)) = "" THEN keyword_tags(Tail(pieces))
    ELSE <<str_strip(Head(pieces))>> \o keyword_tags(Tail(pieces))

\* The loop over tag_elements: a link text (get_text(strip=True)) that is not
\* empty and not among the tags yet is appended.
RECURSIVE extend_tags(_, _)
extend_tags(tags, links) ==
    IF links = <<>> THEN tags
    ELSE extend_tags(IF str_strip(Head(links)) = "" \/ str_strip(Head(links)) \in Range(tags)
                     THEN tags
                     ELSE Append(tags, str_strip(Head(links))),
                     Tail(links))

\* ArticleFetcher._extract_tags: tags.extend(...) of the keywords, then the
\* loop over the tag links.  keywords: the pieces of the content of
\* <meta name=keywords> between its commas; tag_links: the texts of the links.
extract_tags(parts) == extend_tags(keyword_tags(parts.keywords), parts.tag_links)

\* The absolute URL _extract_images makes of an <img> src: "https:" before
\* one that starts with "//", urljoin with the article's URL for one that
\* starts with "/", the src itself otherwise.
AbsoluteUrl(base_url, src) ==
    CASE src.form = "//" -> [form |-> "absolute", s |-> <<"https:", src.s>>]
      [] src.form = "/" -> [form |-> "absolute", s |-> <<"urljoin", base_url, src.s>>]
      [] OTHER -> src

\* ArticleFetcher._extract_images: the og:image, then the images of the
\* article that have a src.
RECURSIVE article_images(_, _)
article_images(base_url, imgs) ==
    IF imgs = <<>> THEN <<>>
    ELSE (IF Head(imgs).src # None
          THEN <<[url |-> AbsoluteUrl(base_url, Head(imgs).src), caption |-> Head(imgs).alt]>>
          ELSE <<>>)
         \o article_images(base_url, Tail(imgs))

extract_images(parts, base_url) ==
    (IF parts.og_image # None
     THEN <<[url |-> parts.og_image.v, caption |-> "Featured image"]>> ELSE <<>>)
    \o article_images(base_url, parts.imgs)

\* ArticleFetcher._extract_article_content: the record read off the page.
extract_article_content(html, url) ==
    [url |-> url,
     title |-> extract_title(html.parts),
     full_text |-> extract_body(html.parts),
     author |-> extract_author(html.parts),
     date |-> extract_date(html.parts),
     tags |-> extract_tags(html.parts),
     images |-> extract_images(html.parts, url)]

\* The articles of the site: what a plain GET of the url is answered with,
\* and what a GET carrying a subscriber's cookies is answered with.
Articles == { [url |-> "/free",    public |-> HtmlOpen,         member |-> HtmlOpen],
              [url |-> "/premium", public |-> HtmlFixture,      member |-> HtmlFull],
              [url |-> "/teaser",  public |-> HtmlTruncated,    member |-> HtmlOpen] }

\* What a GET ends in: the page, or response.raise_for_status() / the
\* transport raising an httpx.HTTPError.
HttpOutcomes == {"ok", "HTTPError"}

\* `not storage_state`: None, or an empty dict.
Falsy(storage_state) == storage_state = None \/ storage_state = Dict("empty")

\* _fetch_authenticated running the classifier on the page it got as well.
fetch_authenticated_classifies_again(article, storage_state, http2) ==
    IF http2 = "HTTPError"
    THEN [status |-> "error", message |-> "Failed to fetch authenticated article",
          url |-> article.url]
    ELSE IF detect_paywall(article.member).is_paywalled
    THEN [status |-> "authentication_required", paywall |-> TRUE,
          message |-> "This article requires a Lloyd's List subscription",
          url |-> article.url, reason |-> detect_paywall(article.member).reason]
    ELSE [status |-> "success", paywall |-> TRUE,
          article |-> extract_article_content(article.member, article.url)]

\* ArticleFetcher._fetch_authenticated
fetch_authenticated(article, storage_state, http2) ==
    IF http2 = "HTTPError"
    THEN [status |-> "error", message |-> "Failed to fetch authenticated article",
          url |-> article.url]
    ELSE [status |-> "success", paywall |-> TRUE,
          article |-> extract_article_content(article.member, article.url)]

\* fetch_article without its `if not storage_state` return.
fetch_article_no_auth_gate(article, storage_state, http1, http2) ==
    LET v == detect_paywall(article.public) IN
    IF http1 = "HTTPError"
    THEN [ret  |-> [status |-> "error", message |-> "Failed to fetch article",
                    url |-> article.url],
          gets |-> <<"plain">>]
    ELSE IF ~v.is_paywalled
    THEN [ret  |-> [status |-> "success", paywall |-> FALSE,
                    article |-> extract_article_content(article.public, article.url)],
          gets |-> <<"plain">>]
    ELSE [ret  |-> fetch_authenticated(article, storage_state, http2),
          gets |-> <<"plain", "cookies">>]

\* ArticleFetcher.fetch_article: the dict it returns, and the GETs it issued
\* ("plain": without cookies, "cookies": with the session's cookies).
fetch_article(article, storage_state, http1, http2) ==
    LET v == detect_paywall(article.public) IN
    IF http1 = "HTTPError"
    THEN [ret  |-> [status |-> "error", message |-> "Failed to fetch article",
                    url |-> article.url],
          gets |-> <<"plain">>]
    ELSE IF ~v.is_paywalled
    THEN [ret  |-> [status |-> "success", paywall |-> FALSE,
                    article |-> extract_article_content(article.public, article.url)],
          gets |-> <<"plain">>]
    ELSE IF Falsy(storage_state)
    THEN [ret  |-> [status |-> "authentication_required", paywall |-> TRUE,
                    message |-> "This article requires a Lloyd's List subscription",
                    url |-> article.url, reason |-> v.reason],
          gets |-> <<"plain">>]
    ELSE [ret  |-> fetch_authenticated(article, storage_state, http2),
          gets |-> <<"plain", "cookies">>]

----------------------------------------------------------------------------
(* server.py                                                               *)

\* The user_session argument: omitted, or a token.
NoToken == [kind |-> "None"]
Token(id) == [kind |-> "str", id |-> id]

\* f"{prefix}{str(e)}"
Fmt(prefix, e) == [kind |-> "str", prefix |-> prefix, e |-> e.msg]

\* json.dumps of a dict with a "status": what a tool returns.
Json(d) == [kind |-> "json"] @@ d

\* SessionManager.get_session on a store that may be out of reach: the redis
\* client raises when the server does not answer (up is FALSE); the memory
\* store is always there.
session_lookup(st, id, up) ==
    IF backend = "redis" /\ ~up
    THEN [ret |-> Raise("ConnectionError", "Error connecting to redis"),
          store |-> st, steps |-> <<"get">>]
    ELSE get_session_result(st, id)

\* get_article_content: the session lookup, then fetch_article; an exception
\* of either is turned into an error result.  lookups counts the calls of
\* get_session, all of them made before the first GET.
get_article_content_result(st, article, user_session, http1, http2, up) ==
    IF user_session = NoToken
    THEN LET f == fetch_article(article, None, http1, http2) IN
         [ret |-> f.ret, gets |-> f.gets, store |-> st, lookups |-> 0]
    ELSE LET s == session_lookup(st, user_session.id, up) IN
         IF IsRaise(s.ret)
         THEN [ret   |-> [status |-> "error",
                          message |-> Fmt("Failed to fetch article: ", s.ret)],
               gets  |-> <<>>,
               store |-> s.store, lookups |-> 1]
         ELSE IF s.ret = None
         THEN [ret   |-> [status |-> "error", message |-> "Invalid or expired session"],
               gets  |-> <<>>,
               store |-> s.store, lookups |-> 1]
         ELSE LET f == fetch_article(article, s.ret.playwright_session, http1, http2) IN
              [ret |-> f.ret, gets |-> f.gets, store |-> s.store, lookups |-> 1]

\* ArticleFetcher._detect_paywall applied to the page at hand.
classify ==
    /\ batch.state = "page"
    /\ last' = [op |-> "detect_paywall", html |-> batch.html,
                ret |-> detect_paywall(batch.html)]
    /\ UNCHANGED <<now, backend, store, cache, batch, twin>>

\* ArticleFetcher._extract_article_content applied to the page at hand.
extract ==
    /\ batch.state = "page"
    /\ last' = [op |-> "extract_article_content", html |-> batch.html,
                ret |-> extract_article_content(batch.html, "/article")]
    /\ UNCHANGED <<now, backend, store, cache, batch, twin>>

get_article_content(article, user_session, http1, http2, up) ==
    LET r == get_article_content_result(store, article, user_session, http1, http2, up) IN
    /\ batch.state = "idle"
    /\ store' = r.store
    /\ last' = [op |-> "get_article_content", article |-> article,
                user_session |-> user_session, http1 |-> http1, http2 |-> http2,
                up |-> up, before |-> store, ret |-> r.ret, gets |-> r.gets,
                lookups |-> r.lookups, response |-> Json(r.ret)]
    /\ UNCHANGED <<now, backend, cache, batch, twin>>

\* search_articles (the tool): what manager.search_articles returned, or the
\* error made of what it raised.
search_articles_response(query, ret) ==
    IF IsRaise(ret)
    THEN Json([status |-> "error", message |-> Fmt("Failed to search articles: ", ret)])
    ELSE Json([status |-> "success", query |-> query, count |-> Len(ret.items),
               results |-> ret.items])

\* get_latest_articles (the tool) with `except ValueError` as its only handler.
get_latest_articles_response_value_error_only(feed_type, feed_name, ret) ==
    IF IsRaise(ret)
    THEN IF ret.exc = "ValueError"
         THEN Json([status |-> "error", message |-> ret.msg])
         ELSE ret
    ELSE Json([status |-> "success", feed_type |-> feed_type, feed_name |-> feed_name,
               count |-> Len(ret.items), results |-> ret.items])

\* get_latest_articles (the tool): a ValueError gives its own message, any
\* other exception a prefixed one.
get_latest_articles_response(feed_type, feed_name, ret) ==
    IF IsRaise(ret)
    THEN IF ret.exc = "ValueError"
         THEN Json([status |-> "error", message |-> ret.msg])
         ELSE Json([status |-> "error", message |-> Fmt("Failed to get articles: ", ret)])
    ELSE Json([status |-> "success", feed_type |-> feed_type, feed_name |-> feed_name,
               count |-> Len(ret.items), results |-> ret.items])

----------------------------------------------------------------------------
(* rss_parser.py                                                           *)

\* RSSFeedManager.FEEDS: the categories in dict order, and the names of each
\* category in dict order (one feed of each category is kept).
FeedTypes == <<"sectors", "topics", "regulars">>

FeedNames(feed_type) ==
    CASE feed_type = "sectors"  -> <<"Containers">>
      [] feed_type = "topics"   -> <<"Sanctions">>
      [] feed_type = "regulars" -> <<"Daily Briefing">>


\* self.FEEDS[feed_type][feed_name]
FeedUrl(feed_type, feed_name) ==
    CASE feed_type = "sectors"  -> "rss/sectors/containers"
      [] feed_type = "topics"   -> "rss/topics/sanctions"
      [] feed_type = "regulars" -> "rss/daily-briefing"

\* The catalog entries in iteration order: `for feed_type, feeds in
\* self.FEEDS.items(): for feed_name, url in feeds.items()`.
CatalogKeys ==
    << [feed_type |-> "sectors",  feed_name |-> "Containers"],
       [feed_type |-> "topics",   feed_name |-> "Sanctions"],
       [feed_type |-> "regulars", feed_name |-> "Daily Briefing"] >>

FeedUrls == {FeedUrl(k.feed_type, k.feed_name) : k \in Range(CatalogKeys)}

\* The (feed_type, feed_name) pairs callers pass that are not in the catalog:
\* an unknown type, an unknown name, the name of another category's feed.
BadFeedArgs ==
    { <<"bogus", "nonexistent">>, <<"bogus", "Containers">>,
      <<"sectors", "nonexistent">>, <<"topics", "Containers">> }

\* RSSFeedManager._get_cache_path: feed_<md5(url)>.json; one file per url.
get_cache_path(url) == <<"feed_md5", url>>

CachePaths == {get_cache_path(u) : u \in FeedUrls}

NoFile == [kind |-> "absent"]

\* json.dump(feed_data, f) and json.load(f): the text of a dict, and the dict
\* of a text; a file whose write broke off holds no JSON document.
JsonDump(data) == [kind |-> "json", of |-> data]
Truncated == [kind |-> "truncated"]
JsonLoad(text) == IF text.kind = "json" THEN text.of ELSE Raise("JSONDecodeError", "load")

\* The feed documents the source may serve: each a list of items.
\* Titles and summaries are texts: sequences of characters.
Item(title, link, summary) == [title |-> title, link |-> link, summary |-> summary]

\* "Oil" / "up", "Gas" / "OIL"; and "LNG" / "oil".
FeedDocs ==
    { << Item(<<"O", "i", "l">>, "/LL1", <<"u", "p">>),
         Item(<<"G", "a", "s">>, "/LL2", <<"O", "I", "L">>) >>,
      << Item(<<"L", "N", "G">>, "/LL3", <<"o", "i", "l">>) >> }

\* What self.http_client.get(url) + raise_for_status() ends in: a document, or
\* an httpx.HTTPError (an error status, a transport error, a timeout).
FeedResponses ==
    {[kind |-> "ok", doc |-> d] : d \in FeedDocs}
    \cup {[kind |-> "fail", exc |-> e] : e \in {"HTTPStatusError", "TimeoutException"}}

\* What the write `with open(cache_path, "w") as f: json.dump(...)` ends in:
\* done; open() raised (nothing written); json.dump raised after open()
\* had truncated the file.
WriteOutcomes == {"ok", "open_raises", "dump_raises"}

\* The answer and the write outcome of one _fetch_feed call.  The write
\* outcome matters only when there is a document to write; the writes that
\* fail are tried on the one-item document.
FetchEnvs ==
    {[resp |-> r, wr |-> "ok"] : r \in FeedResponses}
    \cup {[resp |-> r, wr |-> w] :
             r \in {x \in FeedResponses : x.kind = "ok" /\ Len(x.doc) = 1},
             w \in WriteOutcomes}

\* RSSFeedManager._parse_entry
parse_entry(item) == [title |-> item.title, url |-> item.link, summary |-> item.summary]

\* feed_data of _fetch_feed
FeedData(doc) ==
    [kind |-> "feed_data",
     entries |-> [i \in DOMAIN doc |-> parse_entry(doc[i])], fetched_at |-> now]

\* RSSFeedManager._is_cache_valid with `cache_age <= self.cache_ttl`.
is_cache_valid_inclusive(cache_path) ==
    IF cache[cache_path] = NoFile THEN FALSE
    ELSE now - cache[cache_path].mtime <= feed_cache_ttl

\* RSSFeedManager._is_cache_valid
is_cache_valid(cache_path) ==
    IF cache[cache_path] = NoFile THEN FALSE
    ELSE now - cache[cache_path].mtime < feed_cache_ttl

\* A write that never reaches the file.
CacheWrite_dropped(c, cache_path, feed_data, wr) == c

\* A write that adds to the file (mode "a"): the entries written after the
\* ones the file held.
CacheWrite_appended(c, cache_path, feed_data, wr) ==
    CASE wr = "ok" ->
            [c EXCEPT ![cache_path] =
                [kind |-> "file", mtime |-> now,
                 text |-> IF c[cache_path].kind = "file" /\ c[cache_path].text.kind = "json"
                          THEN JsonDump([feed_data EXCEPT !.entries =
                                            c[cache_path].text.of.entries \o @])
                          ELSE JsonDump(feed_data)]]
      [] wr = "open_raises" -> c
      [] wr = "dump_raises" -> [c EXCEPT ![cache_path] =
                                  [kind |-> "file", text |-> Truncated, mtime |-> now]]

\* The cache file after the write of feed_data.
CacheWrite(c, cache_path, feed_data, wr) ==
    CASE wr = "ok"          -> [c EXCEPT ![cache_path] =
                                  [kind |-> "file", text |-> JsonDump(feed_data), mtime |-> now]]
      [] wr = "open_raises" -> c
      [] wr = "dump_raises" -> [c EXCEPT ![cache_path] =
                                  [kind |-> "file", text |-> Truncated, mtime |-> now]]

\* The log line of the cache write.
WriteStep(wr) == IF wr = "ok" THEN "write" ELSE "write_error"

\* fetch_fresh with the exception of the cache write left to propagate.
fetch_fresh_write_raises(url, resp, wr, steps) ==
    IF resp.kind = "fail"
    THEN [ret |-> Raise(resp.exc, url), cache |-> cache, steps |-> steps \o <<"GET">>]
    ELSE [ret   |-> IF wr = "ok" THEN FeedData(resp.doc) ELSE Raise("OSError", url),
          cache |-> CacheWrite(cache, get_cache_path(url), FeedData(resp.doc), wr),
          steps |-> steps \o <<"GET", WriteStep(wr)>>]

\* fetch_fresh answering a failed GET from whatever the cache file holds.
fetch_fresh_stale_fallback(url, resp, wr, steps) ==
    IF resp.kind = "fail"
    THEN [ret   |-> IF cache[get_cache_path(url)] # NoFile
                       /\ cache[get_cache_path(url)].text.kind = "json"
                    THEN JsonLoad(cache[get_cache_path(url)].text)
                    ELSE Raise(resp.exc, url),
          cache |-> cache, steps |-> steps \o <<"GET">>]
    ELSE [ret   |-> FeedData(resp.doc),
          cache |-> CacheWrite(cache, get_cache_path(url), FeedData(resp.doc), wr),
          steps |-> steps \o <<"GET", WriteStep(wr)>>]

\* fetch_fresh removing the cache file of a feed whose GET failed.
fetch_fresh_drops_entry_on_failure(url, resp, wr, steps) ==
    IF resp.kind = "fail"
    THEN [ret |-> Raise(resp.exc, url),
          cache |-> [cache EXCEPT ![get_cache_path(url)] = NoFile],
          steps |-> steps \o <<"GET">>]
    ELSE [ret   |-> FeedData(resp.doc),
          cache |-> CacheWrite(cache, get_cache_path(url), FeedData(resp.doc), wr),
          steps |-> steps \o <<"GET", WriteStep(wr)>>]

\* The network half of _fetch_feed (lines 88-126): GET, parse, write, return;
\* an exception of the GET is logged and raised again, one of the write is
\* logged only.  "write" stands for a write that went through, "write_error"
\* for the warning logged when it did not.
fetch_fresh(url, resp, wr, steps) ==
    IF resp.kind = "fail"
    THEN [ret |-> Raise(resp.exc, url), cache |-> cache, steps |-> steps \o <<"GET">>]
    ELSE [ret   |-> FeedData(resp.doc),
          cache |-> CacheWrite(cache, get_cache_path(url), FeedData(resp.doc), wr),
          steps |-> steps \o <<"GET", WriteStep(wr)>>]

\* The cache half of _fetch_feed (lines 76-86), which runs before the first
\* await: the cached document when use_cache holds and the file is fresh and
\* parses, and what was done ("stat": _is_cache_valid, "read": open + json.load).
try_cache(url, use_cache) ==
    LET cache_path == get_cache_path(url) IN
    IF use_cache
    THEN IF is_cache_valid(cache_path)
         THEN LET cached_data == JsonLoad(cache[cache_path].text) IN
              IF IsRaise(cached_data)
              THEN [hit |-> FALSE, steps |-> <<"stat", "read">>]
              ELSE [hit |-> TRUE, ret |-> cached_data, steps |-> <<"stat", "read">>]
         ELSE [hit |-> FALSE, steps |-> <<"stat">>]
    ELSE [hit |-> FALSE, steps |-> <<>>]

\* _fetch_feed looking at the cache whatever use_cache says.
fetch_feed_ignores_use_cache(url, use_cache, resp, wr) ==
    LET c == try_cache(url, TRUE) IN
    IF c.hit
    THEN [ret |-> c.ret, cache |-> cache, steps |-> c.steps]
    ELSE fetch_fresh(url, resp, wr, c.steps)

\* RSSFeedManager._fetch_feed: what it returns or raises, the cache after it,
\* and what it did ("GET": the network fetch, "write": the cache write).
fetch_feed(url, use_cache, resp, wr) ==
    LET c == try_cache(url, use_cache) IN
    IF c.hit
    THEN [ret |-> c.ret, cache |-> cache, steps |-> c.steps]
    ELSE fetch_fresh(url, resp, wr, c.steps)

\* get_feed fetching before it has looked the name up.
get_feed_result_unchecked_name(feed_type, feed_name, use_cache, resp, wr) ==
    IF feed_type \notin Range(FeedTypes)
    THEN [ret   |-> Raise("ValueError",
                          [text |-> "Invalid feed type", arg |-> feed_type,
                           listed |-> FeedTypes]),
          cache |-> cache, steps |-> <<>>]
    ELSE LET f == fetch_feed(FeedUrl(feed_type, feed_name), use_cache, resp, wr) IN
         IF feed_name \notin Range(FeedNames(feed_type))
         THEN [ret   |-> Raise("ValueError",
                               [text |-> "Invalid feed name", arg |-> feed_name,
                                listed |-> FeedNames(feed_type)]),
               cache |-> f.cache, steps |-> f.steps]
         ELSE f

\* RSSFeedManager.get_feed
get_feed_result(feed_type, feed_name, use_cache, resp, wr) ==
    IF feed_type \notin Range(FeedTypes)
    THEN [ret   |-> Raise("ValueError",
                          [text |-> "Invalid feed type", arg |-> feed_type,
                           listed |-> FeedTypes]),
          cache |-> cache, steps |-> <<>>]
    ELSE IF feed_name \notin Range(FeedNames(feed_type))
    THEN [ret   |-> Raise("ValueError",
                          [text |-> "Invalid feed name", arg |-> feed_name,
                           listed |-> FeedNames(feed_type)]),
          cache |-> cache, steps |-> <<>>]
    ELSE fetch_feed(FeedUrl(feed_type, feed_name), use_cache, resp, wr)

get_feed(feed_type, feed_name, use_cache, resp, wr) ==
    LET r == get_feed_result(feed_type, feed_name, use_cache, resp, wr) IN
    /\ cache' = r.cache
    /\ last' = [op |-> "get_feed", feed_type |-> feed_type, feed_name |-> feed_name,
                use_cache |-> use_cache, ret |-> r.ret, steps |-> r.steps,
                resp |-> IF \E i \in DOMAIN r.steps : r.steps[i] = "GET"
                         THEN resp ELSE [kind |-> "unused"]]
    /\ UNCHANGED <<now, backend, store, batch, twin>>

\* get_all_feeds, lines 214-222: one _fetch_feed coroutine per catalog entry,
\* in catalog order, handed to asyncio.gather.  Each runs up to its first
\* await: a cache hit is done at once, the others wait for their GET.
\* order: the tasks in the order they finished.
gather(use_cache) ==
    [state |-> "running", use_cache |-> use_cache,
     order |-> SelectSeq([i \in DOMAIN CatalogKeys |-> i],
                 LAMBDA i : try_cache(FeedUrl(CatalogKeys[i].feed_type,
                                              CatalogKeys[i].feed_name),
                                      use_cache).hit),
     tasks |-> [i \in DOMAIN CatalogKeys |->
        LET feed_url == FeedUrl(CatalogKeys[i].feed_type,
                                CatalogKeys[i].feed_name)
            c == try_cache(feed_url, use_cache) IN
        IF c.hit THEN [st |-> "done", url |-> feed_url, ret |-> c.ret]
        ELSE [st |-> "pending", url |-> feed_url, steps |-> c.steps]]]

get_all_feeds_begin(use_cache) ==
    /\ batch.state = "idle"
    /\ batch' = gather(use_cache)
    /\ last' = [op |-> "none"]
    /\ UNCHANGED <<now, backend, store, cache, twin>>

\* The GET of task i is answered: the rest of its _fetch_feed runs.
fetch_task_done(i, resp, wr) ==
    /\ batch.state = "running"
    /\ batch.tasks[i].st = "pending"
    /\ LET r == fetch_fresh(batch.tasks[i].url, resp, wr, batch.tasks[i].steps) IN
       /\ cache' = r.cache
       /\ batch' = [batch EXCEPT !.tasks[i] =
                        [st |-> "done", url |-> batch.tasks[i].url, ret |-> r.ret],
                                  !.order = Append(@, i)]
    /\ UNCHANGED <<now, backend, store, last, twin>>

\* "category/name"
FeedKey(k) == <<k.feed_type, "/", k.feed_name>>

\* all_feeds with the key of result i taken from the i-th of the results
\* that did not fail (the failures dropped before the zip).
all_feeds_shifted(results) ==
    LET ok == SelectSeq(results, LAMBDA r : ~IsRaise(r)) IN
    [kind |-> "dict",
     items |-> [j \in DOMAIN ok |-> [key |-> FeedKey(CatalogKeys[j]), value |-> ok[j]]]]

\* get_all_feeds, lines 224-232: the dict built from zip(feed_keys, results),
\* as the sequence of its items in insertion order.
RECURSIVE all_feeds_from(_, _)
all_feeds_from(results, i) ==
    IF i > Len(results) THEN <<>>
    ELSE IF IsRaise(results[i])
         THEN all_feeds_from(results, i + 1)
         ELSE <<[key |-> FeedKey(CatalogKeys[i]), value |-> results[i]]>>
              \o all_feeds_from(results, i + 1)

all_feeds(results) == [kind |-> "dict", items |-> all_feeds_from(results, 1)]

\* get_all_feeds collecting the results as they come in (as_completed): the
\* items in the order the tasks finished.
get_all_feeds_end_as_completed ==
    /\ batch.state = "running"
    /\ \A i \in DOMAIN batch.tasks : batch.tasks[i].st = "done"
    /\ LET done == SelectSeq(batch.order, LAMBDA i : ~IsRaise(batch.tasks[i].ret)) IN
       last' = [op |-> "get_all_feeds", use_cache |-> batch.use_cache,
                tasks |-> [i \in DOMAIN batch.tasks |->
                              [url |-> batch.tasks[i].url, ret |-> batch.tasks[i].ret]],
                order |-> batch.order,
                ret |-> [kind |-> "dict",
                         items |-> [j \in DOMAIN done |->
                                      [key |-> FeedKey(CatalogKeys[done[j]]),
                                       value |-> batch.tasks[done[j]].ret]]]]
    /\ batch' = [state |-> "idle"]
    /\ UNCHANGED <<now, backend, store, cache, twin>>

\* get_all_feeds returning only once every task has a result that is no
\* exception: a task that failed is waited for without end.
get_all_feeds_end_awaits_successes ==
    /\ batch.state = "running"
    /\ "article_urls" \notin DOMAIN batch
    /\ \A i \in DOMAIN batch.tasks :
          batch.tasks[i].st = "done" /\ ~IsRaise(batch.tasks[i].ret)
    /\ LET results == [i \in DOMAIN batch.tasks |-> batch.tasks[i].ret] IN
       last' = [op |-> "get_all_feeds", use_cache |-> batch.use_cache,
                tasks |-> [i \in DOMAIN batch.tasks |->
                              [url |-> batch.tasks[i].url, ret |-> batch.tasks[i].ret]],
                order |-> batch.order,
                ret |-> all_feeds(results)]
    /\ batch' = [state |-> "idle"]
    /\ UNCHANGED <<now, backend, store, cache, twin>>

\* get_all_feeds returns once gather has every result.
get_all_feeds_end ==
    /\ batch.state = "running"
    /\ "article_urls" \notin DOMAIN batch
    /\ \A i \in DOMAIN batch.tasks : batch.tasks[i].st = "done"
    /\ LET results == [i \in DOMAIN batch.tasks |-> batch.tasks[i].ret] IN
       last' = [op |-> "get_all_feeds", use_cache |-> batch.use_cache,
                tasks |-> [i \in DOMAIN batch.tasks |->
                              [url |-> batch.tasks[i].url, ret |-> batch.tasks[i].ret]],
                order |-> batch.order,
                ret |-> all_feeds(results)]
    /\ batch' = [state |-> "idle"]
    /\ UNCHANGED <<now, backend, store, cache, twin>>

\* str.lower() on the letters the texts are written with.
LowerCase ==
    "O" :> "o" @@ "I" :> "i" @@ "L" :> "l" @@ "G" :> "g" @@ "N" :> "n"

str_lower(text) ==
    [i \in DOMAIN text |-> IF text[i] \in DOMAIN LowerCase THEN LowerCase[text[i]]
                           ELSE text[i]]

\* `sub in text` on str: sub occurs in text as a contiguous run.
str_in(sub, text) ==
    \E i \in 0..(Len(text) - Len(sub)) : SubSeq(text, i + 1, i + Len(sub)) = sub

\* seq[:n]
SliceTo(seq, n) ==
    IF n >= 0
    THEN SubSeq(seq, 1, IF n < Len(seq) THEN n ELSE Len(seq))
    ELSE SubSeq(seq, 1, IF Len(seq) + n > 0 THEN Len(seq) + n ELSE 0)

\* A Python list.
List(items) == [kind |-> "list", items |-> items]

\* bool(x) of an Optional[str]
Truthy(x) == x # None /\ x.v # ""

\* A scope that falls back to all feeds when the name given is not in the
\* catalog.
feeds_to_search_all_if_unknown(sector, category) ==
    IF Truthy(sector) /\ sector.v \in Range(FeedNames("sectors"))
    THEN <<[feed_type |-> "sectors", feed_name |-> sector.v]>>
    ELSE IF ~Truthy(sector) /\ Truthy(category) /\ category.v \in Range(FeedNames("topics"))
    THEN <<[feed_type |-> "topics", feed_name |-> category.v]>>
    ELSE CatalogKeys

\* search_articles, lines 245-257: the feeds to search, in order.
feeds_to_search(sector, category) ==
    IF Truthy(sector)
    THEN IF sector.v \in Range(FeedNames("sectors"))
         THEN <<[feed_type |-> "sectors", feed_name |-> sector.v]>> ELSE <<>>
    ELSE IF Truthy(category)
    THEN IF category.v \in Range(FeedNames("topics"))
         THEN <<[feed_type |-> "topics", feed_name |-> category.v]>> ELSE <<>>
    ELSE CatalogKeys

\* The match of search_articles without .lower() on the entry's texts.
entry_matches_case_sensitive(query_lower, entry) ==
    str_in(query_lower, entry.title) \/ str_in(query_lower, entry.summary)

\* search_articles, lines 264-268: title_match or summary_match
entry_matches(query_lower, entry) ==
    \/ str_in(query_lower, str_lower(entry.title))
    \/ str_in(query_lower, str_lower(entry.summary))

\* The entry loop of search_articles without its early return.
RECURSIVE scan_to_the_end(_, _, _, _, _)
scan_to_the_end(entries, i, results, query_lower, limit) ==
    IF i > Len(entries) THEN [results |-> results, returned |-> FALSE]
    ELSE IF entry_matches(query_lower, entries[i])
         THEN scan_to_the_end(entries, i + 1, Append(results, entries[i]),
                              query_lower, limit)
         ELSE scan_to_the_end(entries, i + 1, results, query_lower, limit)

\* search_articles, lines 263-272: the loop over one feed's entries from
\* entry i on; returned: the loop ended in `return results[:limit]`.
RECURSIVE scan(_, _, _, _, _)
scan(entries, i, results, query_lower, limit) ==
    IF i > Len(entries) THEN [results |-> results, returned |-> FALSE]
    ELSE IF entry_matches(query_lower, entries[i])
         THEN LET appended == Append(results, entries[i]) IN
              IF Len(appended) >= limit
              THEN [results |-> appended, returned |-> TRUE]
              ELSE scan(entries, i + 1, appended, query_lower, limit)
         ELSE scan(entries, i + 1, results, query_lower, limit)

\* One round of the feed loop with a get_feed error passed on to the caller.
search_feed_propagates(b, resp, wr) ==
    LET k == b.feeds[b.i]
        f == get_feed_result(k.feed_type, k.feed_name, TRUE, resp, wr)
        seen == Append(b.seen, [key |-> k, ret |-> f.ret]) IN
    IF IsRaise(f.ret)
    THEN [cache |-> f.cache, seen |-> seen, results |-> b.results,
          returned |-> TRUE, ret |-> f.ret]
    ELSE LET sc == scan(f.ret.entries, 1, b.results, str_lower(b.query), b.limit) IN
         [cache |-> f.cache, seen |-> seen, results |-> sc.results,
          returned |-> sc.returned, ret |-> List(SliceTo(sc.results, b.limit))]

\* search_articles, lines 260-275: one round of the feed loop, on feed b.i of
\* the scope: get_feed (with use_cache at its default), then the entry loop;
\* an exception of either is logged and the loop goes on.  seen: the feeds
\* asked for so far, each with what get_feed gave.
search_feed(b, resp, wr) ==
    LET k == b.feeds[b.i]
        f == get_feed_result(k.feed_type, k.feed_name, TRUE, resp, wr)
        seen == Append(b.seen, [key |-> k, ret |-> f.ret]) IN
    IF IsRaise(f.ret)
    THEN [cache |-> f.cache, seen |-> seen, results |-> b.results,
          returned |-> FALSE, ret |-> List(SliceTo(b.results, b.limit))]
    ELSE LET sc == scan(f.ret.entries, 1, b.results, str_lower(b.query), b.limit) IN
         [cache |-> f.cache, seen |-> seen, results |-> sc.results,
          returned |-> sc.returned, ret |-> List(SliceTo(sc.results, b.limit))]

\* What a finished search_articles call leaves in `last`.
SearchCall(b, seen, ret) ==
    [op |-> "search_articles", query |-> b.query, sector |-> b.sector,
     category |-> b.category, limit |-> b.limit, feeds |-> b.feeds,
     seen |-> seen, ret |-> ret, response |-> search_articles_response(b.query, ret)]

\* search_articles up to its first await: the scope is fixed; with nothing
\* to search it returns results[:limit] at once.
search_articles_begin(query, sector, category, limit) ==
    /\ batch.state = "idle"
    /\ LET b == [state |-> "searching", query |-> query, sector |-> sector,
                 category |-> category, limit |-> limit,
                 feeds |-> feeds_to_search(sector, category),
                 i |-> 1, results |-> <<>>, seen |-> <<>>] IN
       IF b.feeds = <<>>
       THEN /\ last' = SearchCall(b, <<>>, List(SliceTo(<<>>, limit)))
            /\ batch' = batch
       ELSE /\ last' = [op |-> "none"]
            /\ batch' = b
    /\ UNCHANGED <<now, backend, store, cache, twin>>

\* The get_feed of the feed the search is at is answered; the search returns
\* if the limit is reached or this was the last feed, and goes on otherwise.
search_articles_feed(resp, wr) ==
    /\ batch.state = "searching"
    /\ LET r == search_feed(batch, resp, wr) IN
       /\ cache' = r.cache
       /\ IF r.returned \/ batch.i = Len(batch.feeds)
          THEN /\ last' = SearchCall(batch, r.seen, r.ret)
               /\ batch' = [state |-> "idle"]
          ELSE /\ last' = last
               /\ batch' = [batch EXCEPT !.i = @ + 1, !.results = r.results,
                                         !.seen = r.seen]
    /\ UNCHANGED <<now, backend, store, twin>>

\* get_latest_articles with the entries turned round before the slice.
get_latest_articles_result_reversed(feed_type, feed_name, limit, resp, wr) ==
    LET f == get_feed_result(feed_type, feed_name, TRUE, resp, wr) IN
    [feed |-> f.ret, cache |-> f.cache,
     ret |-> IF IsRaise(f.ret) THEN f.ret
             ELSE List(SliceTo([i \in DOMAIN f.ret.entries |->
                                  f.ret.entries[Len(f.ret.entries) + 1 - i]], limit))]

\* RSSFeedManager.get_latest_articles: an exception of get_feed is the
\* caller's.
get_latest_articles_result(feed_type, feed_name, limit, resp, wr) ==
    LET f == get_feed_result(feed_type, feed_name, TRUE, resp, wr) IN
    [feed |-> f.ret, cache |-> f.cache,
     ret |-> IF IsRaise(f.ret) THEN f.ret
             ELSE List(SliceTo(f.ret.entries, limit))]

get_latest_articles(feed_type, feed_name, limit, resp, wr) ==
    LET r == get_latest_articles_result(feed_type, feed_name, limit, resp, wr) IN
    /\ batch.state = "idle"
    /\ cache' = r.cache
    /\ last' = [op |-> "get_latest_articles", feed_type |-> feed_type,
                feed_name |-> feed_name, limit |-> limit, feed |-> r.feed,
                ret |-> r.ret,
                response |-> get_latest_articles_response(feed_type, feed_name, r.ret)]
    /\ UNCHANGED <<now, backend, store, batch, twin>>

----------------------------------------------------------------------------
(* server.py: the other tools                                              *)

\* list_available_feeds: the names of each category, in dict order.
list_available_feeds ==
    /\ batch.state = "idle"
    /\ last' = [op |-> "list_available_feeds",
                response |-> Json([status |-> "success",
                                   feeds |-> [i \in DOMAIN FeedTypes |->
                                                [key |-> FeedTypes[i],
                                                 value |-> FeedNames(FeedTypes[i])]]])]
    /\ UNCHANGED <<now, backend, store, cache, batch, twin>>

\* What auth.initialize() and auth.authenticate(username, password) end in:
\* the storage state; an AuthenticationError (the login page stayed, with
\* the message found on it, or anything that went wrong on the way, wrapped);
\* an exception of page.close() or context.close() in the `finally`; the
\* browser not starting, when authenticate is never called.
ExchangeOutcomes ==
    { [kind |-> "ok"],
      Raise("AuthenticationError", "Login failed: Invalid credentials or login failed"),
      Raise("AuthenticationError", "Failed to authenticate: Timeout 30000ms exceeded"),
      Raise("Error", "Target page, context or browser has been closed"),
      Raise("LaunchError", "Executable doesn't exist") }

\* authenticate_user that tries the exchange a second time when it is
\* rejected (and is rejected again).
authenticate_user_result_retries(st, id, login, exchange, up) ==
    IF exchange.kind = "ok" THEN
        [response |-> Json([status |-> "success", message |-> "Authentication successful",
                            session_token |-> id, expires_in |-> session_ttl]),
         exchanges |-> 1,
         store |-> StoreSet(st, id,
                            [kind |-> "session", user_id |-> login.user_id,
                             created_at |-> now,
                             playwright_session |-> Encrypt(CipherKey, login.state)],
                            None)]
    ELSE [response |-> Json([status |-> "error", message |-> exchange.msg]),
          exchanges |-> 2, store |-> st]

\* authenticate_user: the exchange, then create_session with the storage
\* state it gave.  exchanges counts the calls of auth.authenticate.
authenticate_user_result(st, id, login, exchange, up) ==
    IF exchange.kind = "ok" THEN
        IF backend = "redis" /\ ~up
        THEN [response |-> Json([status |-> "error",
                                 message |-> Fmt("Authentication failed: ",
                                     Raise("ConnectionError", "Error connecting to redis"))]),
              exchanges |-> 1, store |-> st]
        ELSE [response |-> Json([status |-> "success",
                                 message |-> "Authentication successful",
                                 session_token |-> id, expires_in |-> session_ttl]),
              exchanges |-> 1,
              store |-> StoreSet(st, id,
                                 [kind |-> "session", user_id |-> login.user_id,
                                  created_at |-> now,
                                  playwright_session |-> Encrypt(CipherKey, login.state)],
                                 None)]
    ELSE IF exchange.exc = "AuthenticationError"
    THEN [response |-> Json([status |-> "error", message |-> exchange.msg]),
          exchanges |-> 1, store |-> st]
    ELSE [response |-> Json([status |-> "error",
                             message |-> Fmt("Authentication failed: ", exchange)]),
          exchanges |-> IF exchange.exc = "LaunchError" THEN 0 ELSE 1,
          store |-> st]

\* id: the token secrets.token_urlsafe draws, one not handed out before.
authenticate_user(id, login, exchange, up) ==
    LET r == authenticate_user_result(store, id, login, exchange, up) IN
    /\ batch.state = "idle"
    /\ id \in SessionIds
    /\ store[id] = NoRecord
    /\ store' = r.store
    /\ last' = [op |-> "authenticate_user", id |-> id, login |-> login,
                exchange |-> exchange, up |-> up, before |-> store,
                exchanges |-> r.exchanges, response |-> r.response]
    /\ UNCHANGED <<now, backend, cache, batch, twin>>

\* full_text[:500] + ("..." if len(full_text) > 500 else "") for a detailed
\* summary, the full text for a full one.
summary_text(full_text, summary_length) ==
    IF summary_length = "detailed"
    THEN IF full_text.len > 500
         THEN [s |-> full_text.s, len |-> 503, cut |-> TRUE]
         ELSE [s |-> full_text.s, len |-> full_text.len, cut |-> FALSE]
    ELSE [s |-> full_text.s, len |-> full_text.len, cut |-> FALSE]

\* summarize_articles, lines 398-429: the summary entry of one URL.
summary_of(article, storage_state, summary_length, http1, http2) ==
    LET article_data == fetch_article(article, storage_state, http1, http2).ret IN
    IF article_data.status = "authentication_required"
    THEN [url |-> article.url, status |-> "authentication_required",
          message |-> article_data.message]
    ELSE IF article_data.status = "success"
    THEN [url |-> article.url, title |-> article_data.article.title,
          summary |-> summary_text(article_data.article.full_text, summary_length),
          length |-> summary_length,
          author |-> article_data.article.author, date |-> article_data.article.date]
    ELSE [url |-> article.url, status |-> "error", message |-> article_data.message]

\* summarize_articles with summary_length "detailed" or "full": the session
\* lookup (a token that names no session counts as none), then one
\* fetch_article for each URL.  https[i]: what the GETs for URL i end in.
summarize_articles_result(st, articles, summary_length, user_session, https, up) ==
    LET s == IF user_session = NoToken
             THEN [ret |-> None, store |-> st]
             ELSE session_lookup(st, user_session.id, up) IN
    IF IsRaise(s.ret)
    THEN [response |-> Json([status |-> "error",
                             message |-> Fmt("Failed to summarize articles: ", s.ret)]),
          store |-> s.store]
    ELSE LET storage_state == IF s.ret = None THEN None ELSE s.ret.playwright_session
             summaries == [i \in DOMAIN articles |->
                              summary_of(articles[i], storage_state, summary_length,
                                         https[i][1], https[i][2])] IN
         [response |-> Json([status |-> "success", count |-> Len(summaries),
                             summaries |-> summaries]),
          store |-> s.store]

summarize_articles(articles, summary_length, user_session, https, up) ==
    LET r == summarize_articles_result(store, articles, summary_length, user_session,
                                       https, up) IN
    /\ batch.state = "idle"
    /\ summary_length \in {"detailed", "full"}
    /\ store' = r.store
    /\ last' = [op |-> "summarize_articles", summary_length |-> summary_length,
                articles |-> articles, user_session |-> user_session, up |-> up,
                response |-> r.response]
    /\ UNCHANGED <<now, backend, cache, batch, twin>>

\* summarize_articles with summary_length "brief", up to its await: the
\* tasks of get_all_feeds() are started.
summarize_brief_begin(article_urls) ==
    /\ batch.state = "idle"
    /\ batch' = [article_urls |-> article_urls] @@ gather(TRUE)
    /\ last' = [op |-> "none"]
    /\ UNCHANGED <<now, backend, store, cache, twin>>

\* The first entry with that URL in the feeds' entries, feeds in dict order;
\* None when no feed has one.
RECURSIVE find_entry(_, _, _)
find_entry(items, i, url) ==
    IF i > Len(items) THEN None
    ELSE LET entries == items[i].value.entries
             at == {j \in DOMAIN entries : entries[j].url = url} IN
         IF at # {}
         THEN [kind |-> "entry",
               entry |-> entries[CHOOSE j \in at : \A m \in at : j <= m]]
         ELSE find_entry(items, i + 1, url)

\* A brief summary that looks for the URL in the first feed only.
brief_summary_of_first_feed_only(all, url) ==
    LET found == find_entry(SubSeq(all.items, 1, 1), 1, url) IN
    IF found # None
    THEN [url |-> url, title |-> found.entry.title, summary |-> found.entry.summary,
          length |-> "brief"]
    ELSE [url |-> url, status |-> "not_found",
          message |-> "Article not found in RSS feeds"]

\* summarize_articles, lines 362-384: the brief summary entry of one URL.
brief_summary_of(all, url) ==
    LET found == find_entry(all.items, 1, url) IN
    IF found # None
    THEN [url |-> url, title |-> found.entry.title, summary |-> found.entry.summary,
          length |-> "brief"]
    ELSE [url |-> url, status |-> "not_found",
          message |-> "Article not found in RSS feeds"]

\* get_all_feeds() has returned: the summaries are looked up and returned.
summarize_brief_end ==
    /\ batch.state = "running"
    /\ "article_urls" \in DOMAIN batch
    /\ \A i \in DOMAIN batch.tasks : batch.tasks[i].st = "done"
    /\ LET all == all_feeds([i \in DOMAIN batch.tasks |-> batch.tasks[i].ret])
           summaries == [i \in DOMAIN batch.article_urls |->
                            brief_summary_of(all, batch.article_urls[i])] IN
       last' = [op |-> "summarize_articles", summary_length |-> "brief",
                article_urls |-> batch.article_urls,
                tasks |-> [i \in DOMAIN batch.tasks |->
                              [url |-> batch.tasks[i].url, ret |-> batch.tasks[i].ret]],
                response |-> Json([status |-> "success", count |-> Len(summaries),
                                   summaries |-> summaries])]
    /\ batch' = [state |-> "idle"]
    /\ UNCHANGED <<now, backend, store, cache, twin>>

\* What a GET of the article client is answered with: the page, or nothing
\* within the client's timeout, which raises httpx.TimeoutException, an
\* httpx.HTTPError.
Answers == {"ok", "timeout"}

HttpOutcome(answer) == IF answer = "ok" THEN "ok" ELSE "HTTPError"

\* What a get_article_content call that has returned leaves in `last`.
ArticleCall(b, http1, http2, ret, gets) ==
    [op |-> "get_article_content", article |-> b.article,
     user_session |-> b.user_session, http1 |-> http1, http2 |-> http2,
     up |-> TRUE, before |-> b.before, ret |-> ret, gets |-> gets,
     lookups |-> b.lookups, response |-> Json(ret)]

\* get_article_content up to the first GET of fetch_article: the session
\* lookup; with a token that names no session it returns at once.
get_article_content_begin(article, user_session) ==
    /\ batch.state = "idle"
    /\ LET s == IF user_session = NoToken
                THEN [ret |-> None, store |-> store]
                ELSE get_session_result(store, user_session.id)
           b == [state |-> "article", stage |-> "plain", article |-> article,
                 user_session |-> user_session, before |-> store,
                 lookups |-> IF user_session = NoToken THEN 0 ELSE 1,
                 storage_state |-> IF s.ret = None THEN None
                                   ELSE s.ret.playwright_session] IN
       /\ store' = s.store
       /\ IF user_session # NoToken /\ s.ret = None
          THEN /\ last' = ArticleCall(b, "none", "none",
                              get_article_content_result(store, article, user_session,
                                                         "ok", "ok", TRUE).ret, <<>>)
               /\ batch' = batch
          ELSE /\ last' = [op |-> "none"]
               /\ batch' = b
    /\ UNCHANGED <<now, backend, cache, twin>>

\* The GET the call waits for is answered: after the plain one the call
\* returns, or sends the GET with the cookies; after that one it returns.
get_article_content_answered(answer) ==
    /\ batch.state = "article"
    /\ IF batch.stage = "plain"
       THEN LET f == fetch_article(batch.article, batch.storage_state,
                                   HttpOutcome(answer), "ok") IN
            IF f.gets = <<"plain">>
            THEN /\ last' = ArticleCall(batch, HttpOutcome(answer), "none", f.ret, f.gets)
                 /\ batch' = [state |-> "idle"]
            ELSE /\ last' = last
                 /\ batch' = [batch EXCEPT !.stage = "cookies"]
       ELSE LET f == fetch_article(batch.article, batch.storage_state,
                                   "ok", HttpOutcome(answer)) IN
            /\ last' = ArticleCall(batch, "ok", HttpOutcome(answer), f.ret, f.gets)
            /\ batch' = [state |-> "idle"]
    /\ UNCHANGED <<now, backend, store, cache, twin>>

----------------------------------------------------------------------------
(* Calls in flight at the same time.  The event loop runs one coroutine at *)
(* a time and changes coroutine only at an await: _fetch_feed has one      *)
(* await, the GET; the read of the cache file before it and the write      *)
(* after it are synchronous.  The store's set, get and delete hold         *)
(* self._lock over a body without an await (redis runs each command        *)
(* whole), so each is one step.                                            *)

\* How many _fetch_feed calls for the one feed may be in flight.
MaxTasks == 2

FeedTasks == 1..MaxTasks

\* The feed they all fetch, and the session id the store calls all use.
SharedUrl == FeedUrl(CatalogKeys[1].feed_type, CatalogKeys[1].feed_name)
SharedId == "tokA"

\* The batch of the first call, and the one in flight after it.
InFlight ==
    IF batch.state = "idle"
    THEN [state |-> "fetching", tasks |-> [i \in FeedTasks |-> [st |-> "free"]]]
    ELSE batch

\* The rest of _fetch_feed with fetched_at taken when the call began.
fetch_feed_rest_stamped_at_begin(task, resp, wr) ==
    IF resp.kind = "fail"
    THEN [ret |-> Raise(resp.exc, SharedUrl), cache |-> cache, steps |-> <<"GET">>]
    ELSE LET feed_data == [FeedData(resp.doc) EXCEPT !.fetched_at = task.began] IN
         [ret   |-> feed_data,
          cache |-> CacheWrite(cache, get_cache_path(SharedUrl), feed_data, wr),
          steps |-> <<"GET", WriteStep(wr)>>]

\* The rest of _fetch_feed of a task whose GET is answered (its steps
\* counted from the GET on).
fetch_feed_rest(task, resp, wr) == fetch_fresh(SharedUrl, resp, wr, <<>>)

\* Task i calls _fetch_feed(url): it returns the cached document at once, or
\* sends its GET and waits.
fetch_feed_begin(i, use_cache) ==
    /\ batch.state \in {"idle", "fetching"}
    /\ InFlight.tasks[i].st = "free"
    /\ LET c == try_cache(SharedUrl, use_cache) IN
       IF c.hit
       THEN /\ last' = [op |-> "fetch_feed", task |-> i, hit |-> TRUE, ret |-> c.ret,
                        began |-> now,
                        before |-> cache[get_cache_path(SharedUrl)], wr |-> "none"]
            /\ batch' = InFlight
       ELSE /\ last' = last
            /\ batch' = [InFlight EXCEPT !.tasks[i] =
                            [st |-> "pending", began |-> now]]
    /\ UNCHANGED <<now, backend, store, cache, twin>>

\* The GET of task i is answered, whatever the other tasks are at.
fetch_feed_end(i, resp, wr) ==
    /\ batch.state = "fetching"
    /\ batch.tasks[i].st = "pending"
    /\ LET r == fetch_feed_rest(batch.tasks[i], resp, wr) IN
       /\ cache' = r.cache
       /\ last' = [op |-> "fetch_feed", task |-> i, hit |-> FALSE, ret |-> r.ret,
                   began |-> batch.tasks[i].began,
                   before |-> cache[get_cache_path(SharedUrl)],
                   wr |-> IF resp.kind = "ok" THEN wr ELSE "none"]
    /\ batch' = [batch EXCEPT !.tasks[i] = [st |-> "free"]]
    /\ UNCHANGED <<now, backend, store, twin>>

\* SessionStore.set(session_id, data) by one of the callers.
store_set(id, login) ==
    /\ batch.state \in {"idle", "store"}
    /\ store' = StoreSet(store, id,
                         [kind |-> "session", user_id |-> login.user_id,
                          created_at |-> now,
                          playwright_session |-> Encrypt(CipherKey, login.state)],
                         None)
    /\ last' = [op |-> "store_set", id |-> id, login |-> login]
    /\ batch' = [state |-> "store"]
    /\ UNCHANGED <<now, backend, cache, twin>>

\* SessionStore.get(session_id)
store_get(id) ==
    /\ batch.state \in {"idle", "store"}
    /\ LET got == StoreGet(store, id) IN
       /\ store' = got.store
       /\ last' = [op |-> "store_get", id |-> id, before |-> store[id], ret |-> got.ret]
    /\ batch' = [state |-> "store"]
    /\ UNCHANGED <<now, backend, cache, twin>>

\* SessionStore.delete(session_id)
store_delete(id) ==
    /\ batch.state \in {"idle", "store"}
    /\ store' = StoreDelete(store, id)
    /\ last' = [op |-> "store_delete", id |-> id]
    /\ batch' = [state |-> "store"]
    /\ UNCHANGED <<now, backend, cache, twin>>

\* time.time() moves on.
Tick ==
    /\ now < MaxTime
    /\ now' = now + 1
    /\ UNCHANGED <<backend, store, cache, batch, last, twin>>

----------------------------------------------------------------------------

Init ==
    /\ now = 0
    /\ backend \in {"memory", "redis"}
    /\ store = EmptyStore
    /\ cache = [p \in CachePaths |-> NoFile]
    /\ batch = [state |-> "idle"]
    /\ last = [op |-> "none"]
    /\ twin = EmptyStore

\* The catalog entries single get_feed calls name in SpecFeed.
SingleFeedKeys == {CatalogKeys[1], CatalogKeys[2]}

AnyEnv == CHOOSE e \in FetchEnvs : TRUE

NextFeed ==
    \/ Tick
    \/ \E k \in SingleFeedKeys, use_cache \in BOOLEAN, e \in FetchEnvs :
          get_feed(k.feed_type, k.feed_name, use_cache, e.resp, e.wr)
    \/ \E bad \in BadFeedArgs, use_cache \in BOOLEAN :
          get_feed(bad[1], bad[2], use_cache, AnyEnv.resp, AnyEnv.wr)

SpecFeed == Init /\ [][NextFeed]_vars

\* What the tasks of a batch meet: a document that is cached, a document
\* whose cache write fails, and a request that times out.
BatchEnvs ==
    {e \in FetchEnvs : /\ e.wr \in {"ok", "open_raises"}
                       /\ e.resp.kind = "ok" => Len(e.resp.doc) = 1
                       /\ e.resp.kind = "fail" => e.resp.exc = "TimeoutException"}

NextAll ==
    \/ Tick
    \/ \E use_cache \in BOOLEAN : get_all_feeds_begin(use_cache)
    \/ \E i \in DOMAIN CatalogKeys, e \in BatchEnvs : fetch_task_done(i, e.resp, e.wr)
    \/ get_all_feeds_end

SpecAll == Init /\ [][NextAll]_vars

\* The queries: "OiL" (in "Oil", "OIL" and "oil"), "g" (in "Gas" and "LNG")
\* and "x" (in none).
SearchQueries == { <<"O", "i", "L">>, <<"g">>, <<"x">> }

\* sector and category of search_articles: neither, a sector, a topic, a
\* sector the catalog does not have together with a topic it has, a sector
\* and a topic the catalog both has, and an empty sector with a topic.
SearchScopes ==
    { <<None, None>>, <<Str("Containers"), None>>, <<None, Str("Sanctions")>>,
      <<Str("Bulk"), Str("Sanctions")>>, <<Str("Containers"), Str("Sanctions")>>,
      <<Str(""), Str("Sanctions")>> }

Limits == 0..MaxLimit

\* The document each feed has while articles are searched: the two-item one
\* under the first catalog entry, the one-item one under the others.
DocOf(k) ==
    CHOOSE d \in FeedDocs : Len(d) = IF k = CatalogKeys[1] THEN 2 ELSE 1

\* What feed k answers a search with: its document, or a timeout.
SearchEnvs(k) ==
    {e \in FetchEnvs : /\ e.wr = "ok"
                       /\ e.resp.kind = "ok" => e.resp.doc = DocOf(k)
                       /\ e.resp.kind = "fail" => e.resp.exc = "TimeoutException"}

NextSearch ==
    \/ Tick
    \/ \E query \in SearchQueries, sc \in SearchScopes, limit \in Limits :
          search_articles_begin(query, sc[1], sc[2], limit)
    \/ \E k \in Range(CatalogKeys) : \E e \in SearchEnvs(k) :
          /\ batch.state = "searching"
          /\ k = batch.feeds[batch.i]
          /\ search_articles_feed(e.resp, e.wr)
    \/ \E k \in SingleFeedKeys, limit \in Limits : \E e \in SearchEnvs(k) :
          get_latest_articles(k.feed_type, k.feed_name, limit, e.resp, e.wr)

SpecSearch == Init /\ [][NextSearch]_vars

\* The pages the classifier is tried on: every combination of classes, text
\* phrases, article length (none, just under and just at the 500 of the
\* truncation rule) and buttons.
ClassifyPages ==
    { Html("page", in_class, in_text, article, buttons) :
        in_class \in SUBSET {"paywall", "subscriber-only", "premium-content", "article-body"},
        in_text \in SUBSET {"sign in to continue", "log in to view", "read more",
                            "continue reading"},
        article \in {-1, 499, 500},
        buttons \in {<<>>, <<"none">>, <<"header">>, <<"header", "content">>} }

\* The pages the extractors are tried on: with and without each source of
\* each field.  Texts are 80 or 150 characters long, on either side of the
\* 100 of _extract_body.
ExtractPages ==
    { [Html("page", {}, {}, -1, <<>>) EXCEPT !.parts =
          Parts(h1s, title_tag,
                <<None, content, None, article, None>>,
                author, date, tags, image)] :
        h1s \in { <<>>,
                  << H1("Plain", "", FALSE, FALSE) >>,
                  << H1("Plain", "", FALSE, FALSE), H1("In article", "", TRUE, FALSE) >>,
                  << H1("In header", "", FALSE, TRUE), H1("Titled", "page-title", FALSE, FALSE) >> },
        title_tag \in {None, Str("Page title")},
        content \in {None, Element(Text("content p", 80), Text("content", 150))},
        article \in {None,
                     Element(Text("article p", 80), Text("article", 80)),
                     Element(Text("article p", 150), Text("article", 150))},
        author \in { <<None, None>>, <<Str("John Doe"), None>>,
                     <<None, [name |-> "Jane Roe", by |-> TRUE]>> },
        date \in { <<None, None>>, <<None, Str("2026-01-20")>>,
                   <<Str("2026-01-20T10:00:00Z"), Str("2026-01-20")>> },
        tags \in { << <<>>, <<>> >>, << <<"lng", "oil">>, <<"oil", "ports">> >>,
                   << <<"oil", " ", " oil", "lng ">>, <<"", "lng", "ports", "ports">> >> },
        image \in { <<None, <<>> >>,
                    <<None, << [src |-> None, alt |-> "No source"] >> >>,
                    <<Str("/og.jpg"),
                      << [src |-> [form |-> "/", s |-> "a.jpg"], alt |-> "A ship"],
                         [src |-> [form |-> "//", s |-> "cdn/b.jpg"], alt |-> ""] >> >> } }

\* A page is at hand, and nothing else has happened.
InitPage ==
    /\ now = 0
    /\ backend \in {"memory", "redis"}
    /\ store = EmptyStore
    /\ cache = [p \in CachePaths |-> NoFile]
    /\ batch \in {[state |-> "page", html |-> html] : html \in ClassifyPages \cup ExtractPages}
    /\ last = [op |-> "none"]
    /\ twin = EmptyStore

NextPage ==
    \/ classify
    \/ extract

SpecPage == InitPage /\ [][NextPage]_vars

\* What the feed answers a task with: either document, written or with the
\* write broken off, or a timeout.
SharedEnvs ==
    {[resp |-> r, wr |-> w] : r \in {x \in FeedResponses : x.kind = "ok"},
                              w \in {"ok", "dump_raises"}}
    \cup {[resp |-> r, wr |-> "ok"] :
             r \in {x \in FeedResponses : x.kind = "fail" /\ x.exc = "TimeoutException"}}

\* The cache and the session store share nothing, so a behaviour has the
\* callers at one of them.
NextShared ==
    \/ Tick
    \/ \E i \in FeedTasks, use_cache \in BOOLEAN : fetch_feed_begin(i, use_cache)
    \/ \E i \in FeedTasks, e \in SharedEnvs : fetch_feed_end(i, e.resp, e.wr)
    \/ \E login \in Logins : store_set(SharedId, login)
    \/ store_get(SharedId)
    \/ store_delete(SharedId)

SpecShared == Init /\ [][NextShared]_vars

NextSession ==
    \/ Tick
    \/ \E id \in SessionIds, login \in Logins, ttl \in TtlArgs : create_session(id, login, ttl)
    \/ \E id \in Tokens : get_session(id)
    \/ \E id \in Tokens : delete_session(id)
    \/ \E id \in Tokens : validate_session(id)
    \/ cleanup
    \/ \E id \in SessionIds : CorruptRecord(id)

SpecSession == Init /\ [][NextSession]_vars

\* Two managers, one on each kind of backend, given the same calls at the
\* same moments.
NextTwin ==
    \/ Tick
    \/ \E id \in SessionIds, login \in Logins, ttl \in TtlArgs :
          twin_create_session(id, login, ttl)
    \/ \E id \in Tokens : twin_get_session(id)
    \/ \E id \in Tokens : twin_validate_session(id)
    \/ \E id \in Tokens : twin_delete_session(id)

SpecTwin == Init /\ [][NextTwin]_vars

\* The one session the article calls of SpecArticle work with.
ArticleSessionId == "tokA"

NextArticle ==
    \/ Tick
    \/ \E login \in Logins : create_session(ArticleSessionId, login, None)
    \/ CorruptRecord(ArticleSessionId)
    \/ \E a \in Articles, t \in {NoToken, Token(ArticleSessionId), Token(UnknownId)},
          http1 \in HttpOutcomes, http2 \in HttpOutcomes :
          get_article_content(a, t, http1, http2, TRUE)

SpecArticle == Init /\ [][NextArticle]_vars

\* What feed k answers a tool's fetch with: its document, written to the
\* cache, or a timeout.
ServerEnvs(k) == {e \in SearchEnvs(k) : e.wr = "ok"}

\* The URL lists of a brief summary: of an entry of the first feed, of one of
\* the last feed and one that no feed has.
BriefUrls == { <<>>, <<"/LL1">>, <<"/LL3", "/nowhere">> }

\* The articles of a detailed or full summary, and what their GETs end in:
\* every plain GET succeeds, or the first fails; every re-fetch succeeds, or
\* every one fails.
SummaryArticles ==
    { <<>> }
    \cup { <<a, b>> : a \in {x \in Articles : x.url = "/free"},
                      b \in {x \in Articles : x.url = "/premium"} }

\* The articles the article tool is asked for: the open one and the
\* paywalled one.
ServerArticles == {a \in Articles : a.url \in {"/free", "/premium"}}

\* The one user who signs in.
ServerLogins == {l \in Logins : l.user_id = "alice"}

SummaryHttps ==
    { << <<h1, h2>>, <<"ok", h2>> >> : h1 \in HttpOutcomes, h2 \in HttpOutcomes }

NextServer ==
    \/ \E query \in {<<"g">>}, sc \in SearchScopes, limit \in {MaxLimit} :
          search_articles_begin(query, sc[1], sc[2], limit)
    \/ \E k \in Range(CatalogKeys) : \E e \in ServerEnvs(k) :
          /\ batch.state = "searching"
          /\ k = batch.feeds[batch.i]
          /\ search_articles_feed(e.resp, e.wr)
    \/ \E k \in SingleFeedKeys, limit \in {MaxLimit} : \E e \in ServerEnvs(k) :
          get_latest_articles(k.feed_type, k.feed_name, limit, e.resp, e.wr)
    \/ list_available_feeds
    \/ \E a \in ServerArticles, t \in {NoToken, Token(ArticleSessionId), Token(UnknownId)},
          http1 \in HttpOutcomes, http2 \in HttpOutcomes, up \in BOOLEAN :
          get_article_content(a, t, http1, http2, up)
    \/ \E id \in {ArticleSessionId}, login \in ServerLogins, exchange \in ExchangeOutcomes,
          up \in BOOLEAN :
          authenticate_user(id, login, exchange, up)
    \/ \E articles \in SummaryArticles, summary_length \in {"detailed", "full"},
          t \in {NoToken, Token(ArticleSessionId), Token(UnknownId)},
          https \in SummaryHttps, up \in BOOLEAN :
          summarize_articles(articles, summary_length, t, https, up)
    \/ \E article_urls \in BriefUrls : summarize_brief_begin(article_urls)
    \/ \E i \in DOMAIN CatalogKeys : \E e \in ServerEnvs(CatalogKeys[i]) :
          /\ "article_urls" \in DOMAIN batch
          /\ fetch_task_done(i, e.resp, e.wr)
    \/ summarize_brief_end

SpecServer == Init /\ [][NextServer]_vars

\* What a feed answers a waiting call with: its document, written to the
\* cache, or nothing within the client's timeout.
PendingEnvs(k) == ServerEnvs(k)

\* The calls that wait for the network, each GET a step of its own: one
\* get_all_feeds, or one get_article_content, or one _fetch_feed after the
\* other, at a time.
NextPending ==
    \/ \E login \in ServerLogins : create_session(ArticleSessionId, login, None)
    \/ \E use_cache \in BOOLEAN : get_all_feeds_begin(use_cache)
    \/ \E i \in DOMAIN CatalogKeys : \E e \in PendingEnvs(CatalogKeys[i]) :
          fetch_task_done(i, e.resp, e.wr)
    \/ get_all_feeds_end
    \/ \E use_cache \in BOOLEAN : fetch_feed_begin(1, use_cache)
    \/ \E e \in PendingEnvs(CatalogKeys[1]) : fetch_feed_end(1, e.resp, e.wr)
    \/ \E a \in Articles, t \in {NoToken, Token(ArticleSessionId), Token(UnknownId)} :
          get_article_content_begin(a, t)
    \/ \E answer \in Answers : get_article_content_answered(answer)

\* Every GET is sent with timeout=30.0: the client ends it with the response
\* or with httpx.TimeoutException, so a waiting call is resumed while there
\* is one; the event loop resumes get_all_feeds once gather has every
\* result.
SpecPending ==
    /\ Init
    /\ [][NextPending]_vars
    /\ WF_vars(\E i \in DOMAIN CatalogKeys : \E e \in PendingEnvs(CatalogKeys[i]) :
                  fetch_task_done(i, e.resp, e.wr))
    /\ WF_vars(get_all_feeds_end)
    /\ WF_vars(\E e \in PendingEnvs(CatalogKeys[1]) : fetch_feed_end(1, e.resp, e.wr))
    /\ WF_vars(\E answer \in Answers : get_article_content_answered(answer))

----------------------------------------------------------------------------
(* Session store: reads.                                                   *)

\* The credential state a stored record was created with.
StateOf(record) ==
    IF record.data.playwright_session.kind = "dict"
    THEN record.data.playwright_session.value
    ELSE record.data.playwright_session.plain

\* C1: with the in-process backend, every get_session(id) on a record that
\* is stored and not expired returns the record's user id and credential
\* state, and leaves the stored record exactly as it was.
C1_ReadsLeaveSessionUnchanged ==
    [][\A id \in SessionIds :
          ( /\ backend = "memory"
            /\ store[id] # NoRecord
            /\ now <= store[id].expires_at
            /\ get_session(id) )
          => /\ last'.ret # None
             /\ last'.ret.user_id = store[id].data.user_id
             /\ last'.ret.playwright_session = Dict(StateOf(store[id]))
             /\ store' = store]_vars

----------------------------------------------------------------------------
(* Article content.                                                        *)

\* C2: a get_article_content without a token whose plain GET succeeded and
\* whose page the classifier calls paywalled returns authentication_required
\* with the classifier's reason, and no GET carrying cookies was issued.
C2_PaywalledWithoutTokenNeedsAuth ==
    ( /\ last.op = "get_article_content"
      /\ last.user_session = NoToken
      /\ last.http1 = "ok"
      /\ detect_paywall(last.article.public).is_paywalled )
    => /\ last.ret.status = "authentication_required"
       /\ last.ret.reason = detect_paywall(last.article.public).reason
       /\ \A i \in DOMAIN last.gets : last.gets[i] # "cookies"

C2_Witness ==
    /\ last.op = "get_article_content"
    /\ last.user_session = NoToken
    /\ last.http1 = "ok"
    /\ detect_paywall(last.article.public).is_paywalled
    /\ last.ret.status = "authentication_required"

\* C3: a get_article_content with a token that get_session does not accept
\* (unknown, expired or undecryptable) returns what the same call without a
\* token returns.
C3_InvalidTokenIsNoToken ==
    [][\A a \in Articles, id \in Tokens, http1 \in HttpOutcomes, http2 \in HttpOutcomes :
          ( /\ get_session_result(store, id).ret = None
            /\ get_article_content(a, Token(id), http1, http2, TRUE) )
          => last'.ret = get_article_content_result(store, a, NoToken, http1, http2, TRUE).ret]_vars

----------------------------------------------------------------------------
(* Feed cache and feed fetcher.                                            *)

\* The freshness rule as the specification words it:
\* isFresh = (now - storedAt) < ttlSeconds, and no entry is not fresh.
FreshBySpec(cache_path) ==
    /\ cache[cache_path] # NoFile
    /\ now - cache[cache_path].mtime < feed_cache_ttl

\* The cache file holds a JSON document.
Readable(cache_path) ==
    /\ cache[cache_path] # NoFile
    /\ cache[cache_path].text.kind = "json"

Did(steps, what) == \E i \in DOMAIN steps : steps[i] = what

KeyPath(k) == get_cache_path(FeedUrl(k.feed_type, k.feed_name))

\* The step is a get_feed call (`last` then holds its arguments, what it did,
\* the answer its GET got and what it returned); K is the pair it named.
FeedCall == last'.op = "get_feed" /\ (last' # last \/ cache' # cache)

K == [feed_type |-> last'.feed_type, feed_name |-> last'.feed_name]

ValidFeedCall == FeedCall /\ K \in Range(CatalogKeys)

\* The entry of the named feed was fresh and readable when the call began.
Usable(k) == FreshBySpec(KeyPath(k)) /\ Readable(KeyPath(k))

\* C4: get_feed answers from the cache, without a GET, exactly when use_cache
\* is true and the entry is fresh and readable; what it then returns is the
\* stored document, whose age is below the ttl.
C4_CacheHitIffFresh ==
    [][ValidFeedCall
          => LET hit == last'.use_cache /\ Usable(K) IN
             /\ Did(last'.steps, "GET") <=> ~hit
             /\ hit => last'.ret = cache[KeyPath(K)].text.of
             /\ ~Did(last'.steps, "GET") => now - cache[KeyPath(K)].mtime < feed_cache_ttl]_vars

C4_Witness ==
    /\ last.op = "get_feed"
    /\ last.use_cache
    /\ last.steps = <<"stat", "read">>
    /\ last.ret.kind = "feed_data"
    /\ now > last.ret.fetched_at

\* C5: _is_cache_valid is false without an entry, true right after a write
\* that went through, and equal to (now - mtime) < ttl in every state: false
\* from the tick on which the age reaches the ttl.
C5_IsFreshRule ==
    /\ [](\A p \in CachePaths : is_cache_valid(p) <=> FreshBySpec(p))
    /\ [][\A p \in CachePaths :
             (ValidFeedCall /\ Did(last'.steps, "write") /\ p = KeyPath(K))
             => is_cache_valid(p)']_vars

C5_Witness ==
    \E p \in CachePaths :
        /\ cache[p] # NoFile
        /\ now - cache[p].mtime = feed_cache_ttl
        /\ ~is_cache_valid(p)

\* The call recorded in `last` was a get_feed of catalog entry k that fetched
\* from the network and returned a feed.
LastFetched(k) ==
    /\ last.op = "get_feed"
    /\ last.feed_type = k.feed_type
    /\ last.feed_name = k.feed_name
    /\ Did(last.steps, "GET")
    /\ ~IsRaise(last.ret)

\* C6 as claimed: after every get_feed that fetched from the network, the
\* cache entry holds the value returned, and the next get_feed(use_cache=True)
\* of that feed within the ttl returns the same value without a GET.
C6_WriteThroughAlways ==
    [][ValidFeedCall
          => /\ ( Did(last'.steps, "GET") /\ ~IsRaise(last'.ret) )
                => /\ cache'[KeyPath(K)] # NoFile
                   /\ cache'[KeyPath(K)].text = JsonDump(last'.ret)
             /\ ( /\ last'.use_cache /\ LastFetched(K)
                  /\ now - last.ret.fetched_at < feed_cache_ttl )
                => last'.ret = last.ret /\ ~Did(last'.steps, "GET")]_vars

\* C6 amended: the same, for a network fetch whose cache write went through.
C6_WriteThroughWhenWritten ==
    [][ValidFeedCall
          => /\ Did(last'.steps, "write")
                => /\ ~IsRaise(last'.ret)
                   /\ cache'[KeyPath(K)] # NoFile
                   /\ cache'[KeyPath(K)].text = JsonDump(last'.ret)
                   /\ cache'[KeyPath(K)].mtime = now
             /\ ( /\ last'.use_cache /\ LastFetched(K) /\ Did(last.steps, "write")
                  /\ now - last.ret.fetched_at < feed_cache_ttl )
                => last'.ret = last.ret /\ ~Did(last'.steps, "GET")]_vars

\* A cache hit that returns what the call before it fetched and wrote.
C6_Witness ==
    /\ last.op = "get_feed"
    /\ last.steps = <<"stat", "read">>
    /\ \E p \in CachePaths :
          /\ Readable(p)
          /\ cache[p].text = JsonDump(last.ret)
          /\ now > cache[p].mtime

\* C7: a get_feed whose GET succeeded returns the fetched feed whether or not
\* the cache write went through; a fresh entry that cannot be read is a miss:
\* the GET follows, and the call raises only what the GET raised.
C7_CacheNeverFailsRequest ==
    [][ValidFeedCall
          => /\ last'.resp.kind = "ok" => last'.ret = FeedData(last'.resp.doc)
             /\ ( last'.use_cache /\ FreshBySpec(KeyPath(K)) /\ ~Readable(KeyPath(K)) )
                => /\ Did(last'.steps, "GET")
                   /\ IsRaise(last'.ret)
                      => last'.resp.kind = "fail" /\ last'.ret.exc = last'.resp.exc]_vars

\* A fresh but unreadable entry was passed over, and the write failed too.
C7_Witness ==
    /\ last.op = "get_feed"
    /\ last.steps = <<"stat", "read", "GET", "write_error">>
    /\ last.ret.kind = "feed_data"

\* C8: get_feed with a type or a name that is not in the catalog raises
\* ValueError listing the categories (unknown type) or the names of the
\* category (unknown name), having read and fetched nothing; the cache is
\* unchanged.
C8_UnknownFeed ==
    [][(FeedCall /\ K \notin Range(CatalogKeys))
          => /\ cache' = cache
             /\ last'.steps = <<>>
             /\ IsRaise(last'.ret)
             /\ last'.ret.exc = "ValueError"
             /\ last'.ret.msg.listed =
                   IF last'.feed_type \in {"sectors", "topics", "regulars"}
                   THEN FeedNames(last'.feed_type)
                   ELSE <<"sectors", "topics", "regulars">>]_vars

C8_Witness ==
    /\ last.op = "get_feed"
    /\ IsRaise(last.ret)
    /\ last.ret.exc = "ValueError"
    /\ last.ret.msg.text = "Invalid feed name"
    /\ \E p \in CachePaths : cache[p] # NoFile

\* C9: a get_feed that is not answered from a fresh, readable cache entry and
\* whose GET fails raises the error of the GET.
C9_UpstreamError ==
    [][( /\ ValidFeedCall
         /\ last'.resp.kind = "fail"
         /\ ~(last'.use_cache /\ Usable(K)) )
          => /\ IsRaise(last'.ret)
             /\ last'.ret.exc = last'.resp.exc]_vars

\* The GET failed while a stale entry was still on disk.
C9_Witness ==
    /\ last.op = "get_feed"
    /\ IsRaise(last.ret)
    /\ last.ret.exc = "TimeoutException"
    /\ last.steps = <<"stat", "GET">>
    /\ Readable(KeyPath([feed_type |-> last.feed_type, feed_name |-> last.feed_name]))

\* The catalog entries whose fetch failed in the get_all_feeds call in `last`.
Failed == {i \in DOMAIN last.tasks : IsRaise(last.tasks[i].ret)}

\* C10: get_all_feeds isolates failures.  Whatever set of fetches failed, a
\* batch whose tasks are all done returns, and what it returns is a mapping,
\* not an error, whose keys are exactly the "category/name" keys of the
\* entries that did not fail, each with what the fetch of that feed's own url
\* returned; when every fetch failed the mapping is empty.
C10_FailuresIsolated ==
    /\ (batch.state = "running" /\ \A i \in DOMAIN batch.tasks : batch.tasks[i].st = "done")
          => ENABLED get_all_feeds_end
    /\ last.op = "get_all_feeds" =>
          LET items == last.ret.items IN
          /\ ~IsRaise(last.ret)
          /\ {items[j].key : j \in DOMAIN items}
                = {FeedKey(CatalogKeys[i]) : i \in DOMAIN CatalogKeys \ Failed}
          /\ Len(items) = Cardinality(DOMAIN CatalogKeys \ Failed)
          /\ \A j \in DOMAIN items :
                \E i \in DOMAIN CatalogKeys \ Failed :
                   /\ items[j].key = FeedKey(CatalogKeys[i])
                   /\ last.tasks[i].url = FeedUrl(CatalogKeys[i].feed_type,
                                                  CatalogKeys[i].feed_name)
                   /\ items[j].value = last.tasks[i].ret
          /\ (Failed = DOMAIN CatalogKeys) => items = <<>>

\* A batch in which the second feed failed and the feeds around it did not.
C10_Witness ==
    /\ last.op = "get_all_feeds"
    /\ Failed = {2}
    /\ Len(last.ret.items) = 2
    /\ last.ret.items[2].key = FeedKey(CatalogKeys[3])

----------------------------------------------------------------------------
(* Sessions.                                                               *)

\* The id has a record that the backend still answers with at this time.
Live(st, id) ==
    /\ st[id] # NoRecord
    /\ IF backend = "memory" THEN now <= st[id].expires_at ELSE now < st[id].expires_at

\* The record create_session(login) writes.
FreshRecord(st, id, login) ==
    /\ st[id] # NoRecord
    /\ st[id].data.user_id = login.user_id
    /\ st[id].data.created_at = now
    /\ st[id].data.playwright_session = Encrypt(CipherKey, login.state)

C17_PerEntryTtl ==
    /\ [](\A id \in SessionIds :
             store[id] # NoRecord =>
                \E ttl \in TtlArgs :
                   store[id].expires_at = store[id].data.created_at + EffectiveTtl(ttl))
    /\ [][\A id \in SessionIds :
             ( /\ store[id] # NoRecord
               /\ now > store[id].expires_at )
             => /\ (last'.op = "get_session" /\ get_session(id)) => last'.ret = None
                /\ (last'.op = "validate_session" /\ validate_session(id))
                      => last'.ret.v = FALSE]_vars

\* validate_session said no while the expired record was in the backend until
\* this very call, and the other session is still stored and not expired.
C17_Witness ==
    /\ last.op = "validate_session"
    /\ last.id \in SessionIds
    /\ last.ret.v = FALSE
    /\ store[last.id] = NoRecord
    /\ \E id \in SessionIds : Live(store, id) /\ store[id].data.created_at < now

\* C18: a get_session on a stored, unexpired record whose credential blob
\* does not decrypt returns None, as for an unknown id, and deletes the
\* record: after it get_session and validate_session find nothing under the
\* id, and every other record is as it was.
C18_DecryptFailureDeletes ==
    [][\A id \in SessionIds :
          ( /\ Live(store, id)
            /\ IsRaise(Decrypt(CipherKey, store[id].data.playwright_session))
            /\ last'.op = "get_session"
            /\ get_session(id) )
          => /\ last'.ret = None
             /\ last'.ret = get_session_result(store, UnknownId).ret
             /\ store'[id] = NoRecord
             /\ get_session_result(store', id).ret = None
             /\ StoreGet(store', id).ret = None
             /\ \A other \in Tokens \ {id} : store'[other] = store[other]]_vars

\* get_session deleted a record it could not decrypt; another is still there.
C18_Witness ==
    /\ last.op = "get_session"
    /\ last.steps = <<"get", "decrypt", "delete">>
    /\ last.ret = None
    /\ store[last.id] = NoRecord
    /\ \E other \in SessionIds : Live(store, other)

\* C19: every record in the backend holds the credential state as a Fernet
\* token (or as bytes an outside writer left), never as the decrypted dict.
C19_OnlyCiphertextStored ==
    \A id \in Tokens :
       store[id] # NoRecord => store[id].data.playwright_session.kind # "dict"

\* C20: delete_session(id) never fails; after it the id has no record and
\* every other record is as it was; when the id had no live record no live
\* session changes; and deleting once more changes nothing.
C20_DeleteIdempotent ==
    [][\A id \in Tokens :
          (last'.op = "delete_session" /\ delete_session(id))
          => /\ last'.ret = None
             /\ ~Live(store', id)
             /\ StoreGet(store', id).ret = None
             /\ \A other \in Tokens \ {id} : store'[other] = store[other]
             /\ ~Live(store, id) =>
                   \A t \in Tokens : Live(store', t) <=> Live(store, t)
             /\ StoreDelete(store', id) = store']_vars

\* An id that was never issued was deleted while a session was stored.
C20_Witness ==
    /\ last.op = "delete_session"
    /\ last.id = UnknownId
    /\ \E other \in SessionIds : Live(store, other)

----------------------------------------------------------------------------
(* get_all_feeds: concurrency.                                             *)

\* The catalog positions whose fetch did not fail, in catalog order.
Succeeded == SelectSeq([i \in DOMAIN CatalogKeys |-> i], LAMBDA i : i \notin Failed)

\* C11: a running get_all_feeds has one fetch per catalog entry, all started
\* before any is awaited; it returns only when every one of them is done;
\* and what it returns depends on the fetches' results alone, not on the
\* order they finished in: the items are the feeds that did not fail, in
\* catalog order.
C11_CatalogOrder ==
    /\ batch.state = "running" =>
          /\ DOMAIN batch.tasks = DOMAIN CatalogKeys
          /\ \A i \in DOMAIN CatalogKeys :
                batch.tasks[i].url = FeedUrl(CatalogKeys[i].feed_type,
                                             CatalogKeys[i].feed_name)
    /\ (ENABLED get_all_feeds_end) =>
          \A i \in DOMAIN CatalogKeys : batch.tasks[i].st = "done"
    /\ last.op = "get_all_feeds" =>
          /\ Len(last.order) = Len(CatalogKeys)
          /\ Range(last.order) = DOMAIN CatalogKeys
          /\ last.ret.items =
                [j \in DOMAIN Succeeded |->
                   [key |-> FeedKey(CatalogKeys[Succeeded[j]]),
                    value |-> last.tasks[Succeeded[j]].ret]]

\* The last feed of the catalog finished first and the first finished last,
\* none failed, and the mapping starts with the first feed of the catalog.
C11_Witness ==
    /\ last.op = "get_all_feeds"
    /\ last.order = <<3, 2, 1>>
    /\ Failed = {}
    /\ last.ret.items[1].key = FeedKey(CatalogKeys[1])
    /\ last.ret.items[3].key = FeedKey(CatalogKeys[3])
    /\ last.ret.items[1].value.fetched_at > last.ret.items[3].value.fetched_at

----------------------------------------------------------------------------
(* search_articles and get_latest_articles.                                *)

\* Two characters that are the same letter, whatever their case.
SameLetter(a, b) ==
    (IF a \in DOMAIN LowerCase THEN LowerCase[a] ELSE a)
       = (IF b \in DOMAIN LowerCase THEN LowerCase[b] ELSE b)

\* text contains query case-insensitively.
ContainsIgnoringCase(text, query) ==
    \E i \in 0..(Len(text) - Len(query)) :
       \A j \in 1..Len(query) : SameLetter(text[i + j], query[j])

IsMatch(entry, query) ==
    ContainsIgnoringCase(entry.title, query) \/ ContainsIgnoringCase(entry.summary, query)

\* The matching entries of the first n feeds a search asked for, feed by
\* feed and entry by entry; a feed that failed has none.
RECURSIVE MatchesIn(_, _, _)
MatchesIn(seen, n, query) ==
    IF n = 0 THEN <<>>
    ELSE MatchesIn(seen, n - 1, query)
         \o (IF IsRaise(seen[n].ret) THEN <<>>
             ELSE SelectSeq(seen[n].ret.entries, LAMBDA e : IsMatch(e, query)))

\* The matches of every feed the last search asked for.
M == MatchesIn(last.seen, Len(last.seen), last.query)

Min(a, b) == IF a < b THEN a ELSE b

\* C12: search_articles asks for the feeds of its scope in scope order, and
\* returns exactly the first min(limit, m) of the m matching entries taken
\* feed by feed and entry by entry; it leaves a feed of the scope unasked
\* only when the feeds before it already hold limit matches.  Every entry
\* returned matches and there are never more than limit.
C12_SearchResult ==
    last.op = "search_articles" =>
       /\ Len(last.seen) <= Len(last.feeds)
       /\ \A j \in DOMAIN last.seen : last.seen[j].key = last.feeds[j]
       /\ Len(last.seen) < Len(last.feeds) => Len(M) >= last.limit
       /\ ~IsRaise(last.ret)
       /\ last.ret.items = SubSeq(M, 1, Min(last.limit, Len(M)))
       /\ Len(last.ret.items) <= last.limit
       /\ \A i \in DOMAIN last.ret.items : IsMatch(last.ret.items[i], last.query)

\* A search over all feeds for "g" with limit 2: "Gas" of the first feed and
\* "LNG" of the second came back, and the third feed was not asked for.
C12_Witness ==
    /\ last.op = "search_articles"
    /\ last.query = <<"g">>
    /\ last.limit = 2
    /\ Len(last.feeds) = 3
    /\ Len(last.seen) = 2
    /\ Len(last.ret.items) = 2
    /\ last.ret.items[1].url = "/LL2"
    /\ last.ret.items[2].url = "/LL3"

\* C13: once limit matches are collected the search returns: the feeds asked
\* for before the last one asked for hold fewer than limit matches.
C13_ShortCircuit ==
    (last.op = "search_articles" /\ last.seen # <<>>) =>
       Len(MatchesIn(last.seen, Len(last.seen) - 1, last.query)) < last.limit

\* The same for a limit of at least one.
C13_ShortCircuitFromOne ==
    (last.op = "search_articles" /\ last.seen # <<>> /\ last.limit >= 1) =>
       Len(MatchesIn(last.seen, Len(last.seen) - 1, last.query)) < last.limit

\* C14: search_articles never raises.  With no matching entry it returns the
\* empty list; a feed whose get_feed failed does not end the search: the
\* search stops at a failed feed only if it is the last of the scope.
C14_SearchNeverFails ==
    last.op = "search_articles" =>
       /\ ~IsRaise(last.ret)
       /\ M = <<>> => last.ret.items = <<>>
       /\ (last.seen # <<>> /\ IsRaise(last.seen[Len(last.seen)].ret))
             => Len(last.seen) = Len(last.feeds)
       /\ last.ret.items = SubSeq(M, 1, Min(last.limit, Len(M)))

\* The first feed of the scope failed and a match of a later feed came back.
C14_Witness ==
    /\ last.op = "search_articles"
    /\ Len(last.seen) >= 2
    /\ IsRaise(last.seen[1].ret)
    /\ last.ret.items # <<>>

\* C15: get_latest_articles on a feed that get_feed delivers returns the
\* first min(limit, n) of the n entries of the feed's document, in the
\* document's order.
C15_LatestInSourceOrder ==
    (last.op = "get_latest_articles" /\ ~IsRaise(last.feed)) =>
       LET doc == DocOf([feed_type |-> last.feed_type, feed_name |-> last.feed_name]) IN
       /\ ~IsRaise(last.ret)
       /\ Len(last.ret.items) = Min(last.limit, Len(doc))
       /\ \A i \in DOMAIN last.ret.items : last.ret.items[i] = parse_entry(doc[i])
       /\ last.ret.items = SubSeq(last.feed.entries, 1, Min(last.limit, Len(doc)))

\* Both entries of a two-entry feed came back, the first one first.
C15_Witness ==
    /\ last.op = "get_latest_articles"
    /\ ~IsRaise(last.ret)
    /\ Len(last.ret.items) = 2
    /\ last.ret.items[1].url = "/LL1"
    /\ last.ret.items[2].url = "/LL2"

----------------------------------------------------------------------------
(* Paywall classifier.                                                     *)

\* The structural list: the indicators that are CSS classes.
StructuralList ==
    {"paywall", "subscriber-only", "restricted-content", "premium-content",
     "subscription-required"}

\* The text list: the indicators that are phrases.
TextList == Range(PAYWALL_INDICATORS) \ StructuralList

\* The condition of each of the four rules on a page, as the rules are worded.
StructuralRule(html) == html.in_class \cap StructuralList # {}
TextRule(html) == html.in_text \cap TextList # {}
TruncationRule(html) ==
    /\ html.in_text \cap Range(truncation_indicators) # {}
    /\ html.article >= 0
    /\ html.article < 500
CallToActionRule(html) == \E b \in DOMAIN html.buttons : html.buttons[b] = "content"

\* The rule a reason belongs to: 1 structural, 2 text, 3 truncation, 4 call
\* to action.
RuleOf(reason) ==
    CASE reason.rule = "Found paywall class" -> 1
      [] reason.rule = "Found paywall text" -> 2
      [] reason.rule = "Truncated content detected" -> 3
      [] OTHER -> 4

\* The earliest rule whose condition holds on the page, 0 when none does.
EarliestRule(html) ==
    IF StructuralRule(html) THEN 1
    ELSE IF TextRule(html) THEN 2
    ELSE IF TruncationRule(html) THEN 3
    ELSE IF CallToActionRule(html) THEN 4
    ELSE 0

\* C21: a page with an element whose class contains an indicator of the
\* structural list is classified paywalled by the structural rule, with a
\* reason citing such an indicator of the page; a page with class "paywall"
\* is paywalled whatever else it contains.
C21_StructuralMarker ==
    (last.op = "detect_paywall" /\ StructuralRule(last.html)) =>
       /\ last.ret.is_paywalled
       /\ last.ret.reason # None
       /\ last.ret.reason.rule = "Found paywall class"
       /\ last.ret.reason.indicator \in last.html.in_class \cap StructuralList

\* C22: the reason of a paywalled verdict belongs to the earliest of the four
\* rules, in the order structural, text, truncation, call to action, whose
\* condition holds on the page, and the verdict is open exactly when no
\* rule's condition holds.
C22_FirstMatchWins ==
    last.op = "detect_paywall" =>
       /\ last.ret.is_paywalled <=> EarliestRule(last.html) # 0
       /\ last.ret.is_paywalled => RuleOf(last.ret.reason) = EarliestRule(last.html)

\* The same on the pages that have no element of class "paywall".
C22_FirstMatchWinsWithoutPaywallClass ==
    (last.op = "detect_paywall" /\ "paywall" \notin last.html.in_class) =>
       /\ last.ret.is_paywalled <=> EarliestRule(last.html) # 0
       /\ last.ret.is_paywalled => RuleOf(last.ret.reason) = EarliestRule(last.html)

\* C23: a paywalled verdict has a reason that names the rule and the literal
\* indicator that matched, and an open verdict has no reason.
C23_ReasonNamesRuleAndIndicator ==
    last.op = "detect_paywall" =>
       /\ last.ret.is_paywalled <=> last.ret.reason # None
       /\ last.ret.is_paywalled =>
             /\ "rule" \in DOMAIN last.ret.reason
             /\ "indicator" \in DOMAIN last.ret.reason

\* The same for the first three rules, with the indicator one the page has.
C23_ReasonOfFirstThreeRules ==
    (last.op = "detect_paywall" /\ last.ret.is_paywalled
       /\ RuleOf(last.ret.reason) # 4) =>
       /\ last.ret.reason.indicator
             \in last.html.in_class \cup last.html.in_text
       /\ (~last.ret.is_paywalled) <=> (last.ret.reason = None)

\* ---------------------------------------------------------------------
\* The article-content flow

GotArticle == last.op = "get_article_content"

\* The token names a session that get_session would have returned before
\* the call.
ValidToken(st, user_session) ==
    /\ user_session # NoToken
    /\ get_session_result(st, user_session.id).ret # None

\* The credential state the token's session holds, None when it holds none.
CredentialState(st, user_session) ==
    IF ValidToken(st, user_session)
    THEN get_session_result(st, user_session.id).ret.playwright_session
    ELSE None

\* What a call that got as far as the article source did: the plain GET
\* first, cookies only on a second GET after a paywalled verdict with a
\* credential state, an open article returned as it is, a paywalled one
\* re-fetched once and the member page returned.
FlowOf(call) ==
    LET v == detect_paywall(call.article.public)
        state == CredentialState(call.before, call.user_session) IN
    /\ call.gets # <<>> /\ call.gets[1] = "plain"
    /\ \A i \in DOMAIN call.gets :
          call.gets[i] = "cookies" =>
              i = 2 /\ call.http1 = "ok" /\ v.is_paywalled /\ ~Falsy(state)
    /\ call.http1 = "ok" /\ ~v.is_paywalled =>
          /\ call.ret.status = "success" /\ call.ret.paywall = FALSE
          /\ call.ret.article = extract_article_content(call.article.public, call.article.url)
          /\ call.gets = <<"plain">>
    /\ call.http1 = "ok" /\ v.is_paywalled /\ ~Falsy(state) =>
          /\ call.gets = <<"plain", "cookies">>
          /\ call.http2 = "ok" =>
                /\ call.ret.status = "success" /\ call.ret.paywall = TRUE
                /\ call.ret.article =
                       extract_article_content(call.article.member, call.article.url)

\* C24: in every article-content call the unauthenticated fetch and its
\* classification come first, before the session store is consulted;
\* cookies are attached only after a paywalled verdict and with a
\* credential state; an open article yields success with paywall FALSE and
\* no credentialed request; a paywalled one with a valid session yields
\* exactly one credentialed re-fetch whose extraction is returned.
C24_ArticleFlow ==
    GotArticle =>
        /\ FlowOf(last)
        /\ last.lookups > 0 => detect_paywall(last.article.public).is_paywalled

\* The same flow for the calls made without a token or with the token of a
\* session that is there: these reach the article source.
C24_ArticleFlowWithUsableToken ==
    GotArticle /\ (last.user_session = NoToken \/ ValidToken(last.before, last.user_session))
        => FlowOf(last)

\* ---------------------------------------------------------------------
\* Calls in flight at the same time

SharedPath == get_cache_path(SharedUrl)

\* A feed_data a writer makes, whole: all the entries of one document the
\* source served, stamped with one time.
WholeFeedData(v) ==
    /\ v.kind = "feed_data"
    /\ \E d \in FeedDocs : v.entries = [i \in DOMAIN d |-> parse_entry(d[i])]
    /\ v.fetched_at \in 0..MaxTime

\* A session record a writer makes, whole: user and credential state of one
\* login.
WholeSession(data) ==
    \E login \in Logins :
        /\ data.user_id = login.user_id
        /\ data.playwright_session = Encrypt(CipherKey, login.state)

\* The cache file holds one writer's value.
HoldsWhole(file) == file.text.kind = "json" /\ WholeFeedData(file.text.of)

FetchReturned == last.op = "fetch_feed"

\* What holds of the entries whatever the tasks did, `Remains` saying what
\* the file may hold besides one writer's whole value.
Serialized(Remains(_)) ==
    /\ cache[SharedPath] # NoFile =>
          HoldsWhole(cache[SharedPath]) \/ Remains(cache[SharedPath])
    /\ FetchReturned /\ last.wr = "ok" => cache[SharedPath].text = JsonDump(last.ret)
    /\ FetchReturned /\ last.hit =>
          /\ WholeFeedData(last.ret)
          /\ JsonDump(last.ret) = cache[SharedPath].text
    /\ store[SharedId] # NoRecord => WholeSession(store[SharedId].data)
    /\ last.op = "store_get" /\ last.ret # None =>
          /\ WholeSession(last.ret)
          /\ last.ret = last.before.data

NothingElse(file) == FALSE

BrokenOff(file) == file.text = Truncated

Replaced == FetchReturned /\ ~last.hit /\ cache[SharedPath] # last.before

FeedTaskPending(i) == batch.state = "fetching" /\ batch.tasks[i].st = "pending"

GatherTaskPending(i) == batch.state = "running" /\ batch.tasks[i].st = "pending"

TimedOut(ret) == IsRaise(ret) /\ ret.exc = "TimeoutException"

ToolNames ==
    { "search_articles", "get_latest_articles", "list_available_feeds",
      "get_article_content", "authenticate_user", "summarize_articles" }

ToolReturned == last.op \in ToolNames

\* C25: every tool returns a structured result whose status is success or
\* error, or authentication_required for get_article_content; whatever a
\* collaborator does (a feed or article GET failing, the credential exchange
\* raising, the session store out of reach), no exception comes out of it.
C25_StructuredResults ==
    ToolReturned =>
        /\ last.response.kind = "json"
        /\ last.response.status \in
              {"success", "error"}
              \cup (IF last.op = "get_article_content"
                    THEN {"authentication_required"} ELSE {})

\* get_latest_articles has returned an error for a feed whose GET timed out.
C25_Witness ==
    /\ last.op = "get_latest_articles"
    /\ IsRaise(last.ret) /\ last.ret.exc = "TimeoutException"
    /\ last.response.kind = "json"
    /\ last.response.status = "error"

AuthReturned == last.op = "authenticate_user"

Rejected == IsRaise(last.exchange) /\ last.exchange.exc = "AuthenticationError"

\* The store holds one session more than before the call: the one of the
\* login, under the token.
OneSessionMore ==
    /\ last.before[last.id] = NoRecord
    /\ FreshRecord(store, last.id, last.login)
    /\ \A other \in DOMAIN store : other # last.id => store[other] = last.before[other]

\* What authenticate_user does when the exchange is rejected, and what it
\* does when a session is created, `created` saying when that is.
AuthenticateContract(created) ==
    /\ Rejected =>
          /\ last.response.status = "error"
          /\ last.response.message = last.exchange.msg
          /\ last.exchanges = 1
          /\ store = last.before
    /\ last.exchanges <= 1
    /\ created =>
          /\ OneSessionMore
          /\ last.exchanges = 1
          /\ last.response.status = "success"
          /\ last.response.session_token = last.id
    /\ ~created =>
          /\ store = last.before
          /\ last.response.status = "error"

\* C26 as stated: a session is created if and only if the credential
\* exchange succeeds; a rejected exchange gives an error with the exchange's
\* message verbatim, after exactly one call of the exchange and with the
\* store unchanged; a successful one stores exactly one new session and
\* returns its token.
C26_SessionIffExchange ==
    AuthReturned => AuthenticateContract(last.exchange.kind = "ok")

\* C26, amended: a session is created if and only if the credential
\* exchange succeeds and the session store takes the write; the rest as
\* stated.
C26_SessionIffExchangeAndStore ==
    AuthReturned =>
        AuthenticateContract(/\ last.exchange.kind = "ok"
                             /\ ~(backend = "redis" /\ ~last.up))

\* A rejected exchange has been reported, and the store is as it was.
C26_Witness ==
    /\ AuthReturned
    /\ Rejected
    /\ last.response.status = "error"
    /\ last.response.message = "Login failed: Invalid credentials or login failed"
    /\ last.exchanges = 1
    /\ store = last.before

\* ---------------------------------------------------------------------
\* Extraction

Extracted == last.op = "extract_article_content"

NoBodySource(parts) ==
    \A k \in DOMAIN parts.bodies :
        \/ parts.bodies[k] = None
        \/ parts.bodies[k].paragraphs.len <= 100 /\ parts.bodies[k].text.len <= 100

\* C28: extract returns an article record for every page and never raises;
\* a field with no matching source takes its default: the title "Untitled
\* Article" when there is no <h1> and no <title>, the body the fixed
\* sentinel when no selected element has more than 100 characters, author
\* and date None when neither of their sources is there, tags and images
\* empty lists when there are no keywords, tag links, og:image or images
\* with a src.
C28_ExtractDefaults ==
    Extracted =>
        LET parts == last.html.parts
            ret == last.ret IN
        /\ DOMAIN ret = {"url", "title", "full_text", "author", "date", "tags", "images"}
        /\ ret.url = "/article"
        /\ parts.h1s = <<>> /\ parts.title_tag = None => ret.title = "Untitled Article"
        /\ NoBodySource(parts) =>
              ret.full_text = Text("Article content could not be extracted", 39)
        /\ parts.author_meta = None /\ parts.author_el = None => ret.author = None
        /\ parts.date_meta = None /\ parts.time_tag = None => ret.date = None
        /\ parts.keywords = <<>> /\ parts.tag_links = <<>> => ret.tags = <<>>
        /\ parts.og_image = None /\ (\A i \in DOMAIN parts.imgs : parts.imgs[i].src = None)
              => ret.images = <<>>

\* A page with a short <article>, a date and nothing else has been read.
C28_Witness ==
    /\ Extracted
    /\ last.html.parts.h1s = <<>> /\ last.html.parts.title_tag = None
    /\ last.html.parts.bodies[4] # None /\ NoBodySource(last.html.parts)
    /\ last.html.parts.time_tag # None
    /\ last.html.parts.imgs # <<>>
    /\ last.ret.title = "Untitled Article"
    /\ last.ret.full_text.len = 39
    /\ last.ret.author = None /\ last.ret.date # None
    /\ last.ret.tags = <<>> /\ last.ret.images = <<>>

----------------------------------------------------------------------------
(* The two backends side by side.                                          *)

\* C31: the two storage backends are observationally equivalent behind
\* SessionManager: whatever create_session, get_session, validate_session and
\* delete_session calls and clock advances came before, a call returns the
\* same on the manager with the in-process backend as on the manager with the
\* external key-value backend.
C31_BackendsAgree ==
    "twin_ret" \in DOMAIN last => last.ret = last.twin_ret

\* C32: the in-process sweep removes exactly the entries that are expired at
\* the time it runs and leaves every other entry as it was, and for every id
\* MemorySessionStore.get and exists answer the same after the sweep as they
\* would have answered without it.
C32_SweepIsOnlyHousekeeping ==
    [][(last'.op = "cleanup" /\ cleanup)
          => \A id \in Tokens :
                /\ (store[id] # NoRecord /\ store[id].expires_at < now)
                      => store'[id] = NoRecord
                /\ ~(store[id] # NoRecord /\ store[id].expires_at < now)
                      => store'[id] = store[id]
                /\ MemoryGet(store', id).ret = MemoryGet(store, id).ret
                /\ (MemoryGet(store', id).ret # None) = (MemoryGet(store, id).ret # None)]_vars

\* A sweep that removed an expired entry while another entry, which expires
\* at this very moment, stayed.
C32_Witness ==
    /\ last.op = "cleanup"
    /\ last.expired # {}
    /\ \E id \in SessionIds : store[id] # NoRecord /\ store[id].expires_at = now

----------------------------------------------------------------------------
(* The scope of a search.                                                  *)

\* An optional argument that was passed.
Passed(x) == x # None

\* An optional argument that was passed and is not the empty string.
Named(x) == x # None /\ x.v # ""

\* The feeds a search has asked for are the first feeds of its scope, each
\* asked for once and in the order of the scope.
FetchedWithin(feeds, seen) ==
    /\ Len(seen) <= Len(feeds)
    /\ \A i \in DOMAIN seen : seen[i].key = feeds[i]

\* The catalog's feed of that type and name, as a scope; no feed when the
\* catalog has none of that name.
OneFeed(feed_type, name) ==
    IF \E k \in Range(CatalogKeys) : k.feed_type = feed_type /\ k.feed_name = name
    THEN <<[feed_type |-> feed_type, feed_name |-> name]>>
    ELSE <<>>

\* C33 as stated: the scope of searchArticles is exactly the single named
\* sector feed when sector is given, exactly the single named topic feed when
\* category is given, and all catalog feeds in catalog order if neither is
\* given; only feeds of the scope are fetched.
C33_ScopeByArgument ==
    last.op = "search_articles" =>
       /\ Passed(last.sector)
             => last.feeds = <<[feed_type |-> "sectors", feed_name |-> last.sector.v]>>
       /\ Passed(last.category)
             => last.feeds = <<[feed_type |-> "topics", feed_name |-> last.category.v]>>
       /\ (~Passed(last.sector) /\ ~Passed(last.category)) => last.feeds = CatalogKeys
       /\ FetchedWithin(last.feeds, last.seen)

\* C33, amended: a non-empty sector decides alone, and the scope is the
\* catalog's sector feed of that name, or no feed when there is none; without
\* it a non-empty category decides, and the scope is the catalog's topic feed
\* of that name, or no feed; with neither the scope is all catalog feeds in
\* catalog order.  Only feeds of the scope are fetched, in scope order, while
\* the search runs and when it has returned.
C33_ScopeSectorFirst ==
    /\ last.op = "search_articles" =>
          /\ Named(last.sector) => last.feeds = OneFeed("sectors", last.sector.v)
          /\ (~Named(last.sector) /\ Named(last.category))
                => last.feeds = OneFeed("topics", last.category.v)
          /\ (~Named(last.sector) /\ ~Named(last.category)) => last.feeds = CatalogKeys
          /\ FetchedWithin(last.feeds, last.seen)
    /\ batch.state = "searching" => FetchedWithin(batch.feeds, batch.seen)

\* A search with a sector and a category the catalog both has that asked for
\* the sector feed and for nothing else, and found something in it.
C33_Witness ==
    /\ last.op = "search_articles"
    /\ last.sector = Str("Containers")
    /\ last.category = Str("Sanctions")
    /\ Len(last.seen) = 1
    /\ last.seen[1].key = [feed_type |-> "sectors", feed_name |-> "Containers"]
    /\ ~IsRaise(last.seen[1].ret)
    /\ last.ret.items # <<>>

----------------------------------------------------------------------------
(* The truncation heuristic.                                               *)

\* The verdict is one of the truncation rule.
ByTruncation(ret) ==
    /\ ret.is_paywalled
    /\ ret.reason.rule = "Truncated content detected"

\* C34: on a page where no structural and no text marker matches, a
\* continuation phrase in the visible text together with an article-like
\* container whose text is shorter than 500 characters gives the verdict
\* paywalled with a reason citing a continuation phrase of the page; on any
\* page whose container text has 500 characters or more, or that has no
\* article-like container, the truncation rule is not the one that fires.
C34_TruncationHeuristic ==
    last.op = "detect_paywall" =>
       /\ ( /\ ~StructuralRule(last.html)
            /\ ~TextRule(last.html)
            /\ last.html.in_text \cap Range(truncation_indicators) # {}
            /\ last.html.article >= 0
            /\ last.html.article < 500 )
          => /\ ByTruncation(last.ret)
             /\ last.ret.reason.indicator
                   \in last.html.in_text \cap Range(truncation_indicators)
       /\ (last.html.article >= 500 \/ last.html.article < 0) => ~ByTruncation(last.ret)

\* A page with "read more" in its text, a container of 499 characters and
\* nothing else, found truncated because of "read more".
C34_Witness ==
    /\ last.op = "detect_paywall"
    /\ last.html.in_class = {}
    /\ last.html.in_text = {"read more"}
    /\ last.html.article = 499
    /\ last.html.buttons = <<>>
    /\ ByTruncation(last.ret)
    /\ last.ret.reason.indicator = "read more"

----------------------------------------------------------------------------
(* Tags.                                                                   *)

\* No value occurs twice in the sequence.
NoRepeats(seq) == \A i, j \in DOMAIN seq : seq[i] = seq[j] => i = j

\* The trimmed, non-empty values of the pieces.
Values(pieces) == {str_strip(pieces[i]) : i \in DOMAIN pieces} \ {""}

\* C35: the tags of an extracted article are the trimmed non-empty metadata
\* keywords and the texts of the tag links, keywords before links, and no
\* value occurs in them twice, also when the keywords repeat a value.
C35_TagsWithoutRepeats ==
    Extracted =>
        LET parts == last.html.parts
            tags == last.ret.tags IN
        /\ Range(tags) = Values(parts.keywords) \cup Values(parts.tag_links)
        /\ \A i, j \in DOMAIN tags :
               (tags[i] \in Values(parts.keywords) /\ tags[j] \notin Values(parts.keywords))
                  => i < j
        /\ NoRepeats(tags)

\* The same for the pages whose keywords do not repeat a value.
C35_TagsWithoutRepeatsOfDistinctKeywords ==
    (Extracted /\ NoRepeats(keyword_tags(last.html.parts.keywords))) =>
        LET parts == last.html.parts
            tags == last.ret.tags IN
        /\ Range(tags) = Values(parts.keywords) \cup Values(parts.tag_links)
        /\ \A i, j \in DOMAIN tags :
               (tags[i] \in Values(parts.keywords) /\ tags[j] \notin Values(parts.keywords))
                  => i < j
        /\ NoRepeats(tags)

----------------------------------------------------------------------------
(* Summaries.                                                              *)

Summarized == last.op = "summarize_articles"

\* The URLs a finished summarize call was asked for, in request order.
Requested ==
    IF last.summary_length = "brief" THEN last.article_urls
    ELSE [i \in DOMAIN last.articles |-> last.articles[i].url]

\* The result holds one item for each requested URL, in request order.
OneItemPerUrl ==
    /\ last.response.status = "success"
    /\ DOMAIN last.response.summaries = DOMAIN Requested
    /\ last.response.count = Len(Requested)
    /\ \A i \in DOMAIN Requested : last.response.summaries[i].url = Requested[i]

\* The entries of the feeds that get_all_feeds() of the brief call fetched.
FeedEntries ==
    UNION { Range(last.tasks[i].ret.entries) :
               i \in {j \in DOMAIN last.tasks : ~IsRaise(last.tasks[j].ret)} }

\* Each item of a brief result is made of a feed entry with that URL, of its
\* title and summary and nothing else, or is a not_found item when no
\* fetched feed has an entry with that URL.
BriefItems ==
    \A i \in DOMAIN Requested :
        LET item == last.response.summaries[i]
            with == {e \in FeedEntries : e.url = Requested[i]} IN
        IF with # {}
        THEN \E e \in with : item = [url |-> Requested[i], title |-> e.title,
                                      summary |-> e.summary, length |-> "brief"]
        ELSE /\ DOMAIN item = {"url", "status", "message"}
             /\ item.status = "not_found"

\* While a brief call is in flight the session store is left alone.
BriefLeavesStoreAlone == [][("article_urls" \in DOMAIN batch) => store' = store]_vars

\* A detailed or full call that passed a token while the session store could
\* not be reached.
StoreOutage ==
    /\ last.summary_length # "brief"
    /\ last.user_session # NoToken
    /\ backend = "redis"
    /\ ~last.up

\* C36 as stated: a brief summarize works from the feeds alone, without the
\* session store, and yields for each URL the title and summary of the feed
\* entry with that URL or a not_found item; for every tier the result holds
\* exactly one item per requested URL, in request order.
C36_OneItemPerUrl ==
    /\ [](Summarized => /\ OneItemPerUrl
                        /\ last.summary_length = "brief" => BriefItems)
    /\ BriefLeavesStoreAlone

\* C36, amended: the same, except that a detailed or full call that passed a
\* token fails as a whole, with an error result and no items, when the
\* session store cannot be reached.
C36_OneItemPerUrlUnlessStoreOutage ==
    /\ [](Summarized =>
            IF StoreOutage
            THEN /\ last.response.status = "error"
                 /\ "summaries" \notin DOMAIN last.response
            ELSE /\ OneItemPerUrl
                 /\ last.summary_length = "brief" => BriefItems)
    /\ BriefLeavesStoreAlone

\* A brief call for an entry of the last feed and for a URL no feed has,
\* answered with the entry's title and summary and with a not_found item.
C36_Witness ==
    /\ Summarized
    /\ last.summary_length = "brief"
    /\ last.article_urls = <<"/LL3", "/nowhere">>
    /\ "title" \in DOMAIN last.response.summaries[1]
    /\ last.response.summaries[1].summary = <<"o", "i", "l">>
    /\ last.response.summaries[2].status = "not_found"

----------------------------------------------------------------------------
(* The cache after a failed fetch.                                         *)

\* C37: a get_feed whose network fetch fails leaves the whole cache as it
\* was, the entry of the feed it named (content and modification time, or
\* its absence) and the entries of all other feeds; an entry changes only in
\* a call that named its feed and whose network fetch succeeded.
C37_FailedFetchLeavesCache ==
    [][/\ (FeedCall /\ last'.resp.kind = "fail") => cache' = cache
       /\ \A p \in CachePaths :
             cache'[p] # cache[p]
                => /\ ValidFeedCall
                   /\ p = KeyPath(K)
                   /\ last'.resp.kind = "ok"]_vars

\* The GET of a feed failed while its stale entry and the entry of another
\* feed were on disk, and both are still there.
C37_Witness ==
    /\ last.op = "get_feed"
    /\ last.resp.kind = "fail"
    /\ LET p == KeyPath([feed_type |-> last.feed_type, feed_name |-> last.feed_name]) IN
       /\ Readable(p)
       /\ now - cache[p].mtime >= feed_cache_ttl
       /\ \E q \in CachePaths \ {p} : cache[q] # NoFile

----------------------------------------------------------------------------
(* validate_session against get_session.                                   *)

\* The credential blob of the record is a token of this process's key.
Decryptable(st, id) ==
    /\ st[id].data.playwright_session.kind = "fernet"
    /\ st[id].data.playwright_session.key = CipherKey

\* C38: validate_session(id) returns true exactly when get_session(id),
\* called at the same moment, would return a session; so it is false for an
\* unknown id, for an expired record and for a record whose credential blob
\* cannot be decrypted.
C38_ValidateIffGettable ==
    [][(last'.op = "validate_session" /\ validate_session(last'.id))
          => last'.ret.v = (get_session_result(store, last'.id).ret # None)]_vars

\* The same for the ids that are unknown or whose record holds a blob that
\* decrypts.
C38_ValidateIffGettableWhenDecryptable ==
    [][( /\ last'.op = "validate_session"
         /\ validate_session(last'.id)
         /\ store[last'.id] # NoRecord => Decryptable(store, last'.id) )
          => last'.ret.v = (get_session_result(store, last'.id).ret # None)]_vars

----------------------------------------------------------------------------
(* The credentialed re-fetch.                                              *)

\* The call sent a GET with the session's cookies.
Refetched == GotArticle /\ Did(last.gets, "cookies")

\* C39: the page a credentialed re-fetch gets is not classified again: when
\* the credentialed GET succeeds the call returns success with paywall TRUE
\* and the extraction of that page, whether or not the page carries paywall
\* markers; when the credentialed GET fails the call returns an error.
C39_RefetchIsNotClassified ==
    Refetched =>
       /\ last.http2 = "ok" =>
             /\ last.ret.status = "success"
             /\ last.ret.paywall = TRUE
             /\ last.ret.article =
                   extract_article_content(last.article.member, last.article.url)
       /\ last.http2 # "ok" => last.ret.status = "error"

\* A re-fetch that got a page which the classifier takes for paywalled, and
\* returned it as a success.
C39_Witness ==
    /\ Refetched
    /\ last.http2 = "ok"
    /\ detect_paywall(last.article.member).is_paywalled
    /\ last.ret.status = "success"
    /\ last.ret.paywall = TRUE

----------------------------------------------------------------------------
(* The ttl of create_session.                                              *)

\* The ttl the claim gives a session: the argument when it is a positive
\* number, the configured default when it is omitted or 0.
TtlByArgument(ttl) ==
    IF ttl # None /\ ttl.v > 0 THEN ttl.v ELSE session_ttl

\* C40: a session is stored with the ttl argument when that is a positive
\* number and with the configured default when it is omitted or 0, and the
\* backend answers with it at every moment before its creation time plus
\* that ttl; so a session created with ttl = 0 does not expire at once.
C40_StoredTtl ==
    last.op = "create_session" =>
       /\ store[last.id] # NoRecord
       /\ store[last.id].expires_at
             = store[last.id].data.created_at + TtlByArgument(last.ttl)
       /\ now < store[last.id].data.created_at + TtlByArgument(last.ttl)
             => StoreGet(store, last.id).ret # None

\* A session created with ttl = 0 that the backend still answers with one
\* tick later.
C40_Witness ==
    /\ last.op = "create_session"
    /\ last.ttl = [kind |-> "int", v |-> 0]
    /\ now = store[last.id].data.created_at + 1
    /\ store[last.id].expires_at = store[last.id].data.created_at + session_ttl
    /\ StoreGet(store, last.id).ret # None

====
